---- MODULE Spec2Model ----
(***************************************************************************)
(* Per-peer UDP relay engine of the netclient proxy layer                  *)
(* (nmproxy/proxy/proxy_helper.go): the forwarding loop Proxy.toRemote,    *)
(* its detached per-datagram metric updates, Proxy.ProxyPeer waiting for   *)
(* the loop, and Proxy.Reset with the two registry indices it republishes  *)
(* into.  One peer is modelled; every                                      *)
(* Proxy object built for it is an endpoint id 1..MaxProxies.              *)
(***************************************************************************)
EXTENDS Naturals, Integers, Sequences, FiniteSets, TLC

\* ------------------------------------------------------------------ bounds
\* Proxy objects ever constructed for the peer (the first one plus resets).
MaxProxies == 3
\* Datagrams the tunnel software ever writes to a local relay socket.
MaxDatagrams == 2
\* Host bits of the widest CIDR handed to GetFreeIp (2^MaxHostBits addresses).
MaxHostBits == 3
\* GetFreeIp calls, and PeerConnectionStatus calls, made one after the other.
MaxCalls == 2
\* Seconds the clock advances while PeerConnectionStatus is being called.
MaxTicks == 1
\* Reset signals (SIGHUP) sent to the daemon.
MaxResets == 2
\* Firewall-manager operations called, over all tasks.
MaxOps == 3

\* ------------------------------------------------------- fixed populations
\* Control-plane tasks that may run Reset / Close / registry mutations.
Callers == {"c1", "c2"}
\* Servers the peer is registered under (Conn.ServerMap).
Servers == {"s1"}
\* Datagram lengths as returned by LocalConn.Read.
DatagramLens == {60, 100}
\* Bytes the pre-send transform adds (source and destination peer hash).
TransformOverhead == 32

\* make([]byte, 65000): the receive buffer toRemote starts with.
ReadBufSize == 65000

ProxyIds == 1..MaxProxies
DatagramIds == 1..MaxDatagrams
Nil == "nil"
NoConn == 0
NoDg == [id |-> 0, n |-> 0, tr |-> "none"]
NoEntry == [present |-> FALSE]
NoAddr == 0

VARIABLES
  nProxies,       \* number of Proxy objects constructed so far
  Config,         \* Config[e]: models.Proxy of endpoint e
  ctxDone,        \* ctxDone[e]: p.Ctx has been cancelled
  LocalConn,      \* LocalConn[e]: the socket e owns (NoConn before Start)
  RemoteConn,     \* RemoteConn[e]: destination of relayed writes
  sockOpen,       \* sockOpen[s]: socket s is bound and not closed
  sockQueue,      \* sockQueue[s]: datagrams waiting in the socket
  sockLog,        \* sockLog[s]: ids ever delivered to socket s, in order
  loopPc,         \* loopPc[e]: position of e's toRemote goroutine
  loopDg,         \* loopDg[e]: datagram (buf[:n]) the loop holds
  bufLen,         \* bufLen[e]: len(buf), the size of the loop's receive buffer
  issued,         \* issued[e]: the remote writes e's loop issued, in order
  ppPc,           \* ppPc[e]: position of e's ProxyPeer goroutine
  ifaceEndpoint,  \* socket the tunnel interface uses as the peer endpoint
  proxyPeerMap,   \* registry entry indexed by public key
  peerHashMap,    \* registry entry indexed by peer hash
  metricsMap,     \* metricsMap[server]: TrafficSent of (server, peer)
  mtask,          \* mtask[d]: detached metric goroutine of datagram d
  nSent,          \* datagrams written by the tunnel so far
  caller,         \* caller[c]: control-plane task c
  DumpSignalChan, \* signals pending in config.DumpSignalChan
  stalled,        \* transports whose send path accepts no write at present
  freeIp,         \* the GetFreeIp call in progress or returned
  inUse,          \* addresses some socket is bound to at the proxy port
  ifacePeers,     \* what wg.GetPeers yields: the tunnel's peer list, or failure
  now,            \* the clock, in seconds
  status,         \* the PeerConnectionStatus calls made so far
  daemon,         \* the Daemon goroutine: its position, signals, generation
  routines,       \* goroutines counted by the daemon's WaitGroup and running
  httpServer,     \* the HttpServer goroutine
  lastSetup,      \* the setupMQTT call that returned last
  nfm,            \* the nftablesManager: mux, rule tables, current egress ranges
  nftask,         \* nftask[t]: the manager operation task t is running
  recorded        \* ext clients whose rules an operation recorded and none removed

vars == <<nProxies, Config, ctxDone, LocalConn, RemoteConn, sockOpen, sockQueue,
          sockLog, loopPc, loopDg, bufLen, issued, ppPc, ifaceEndpoint, proxyPeerMap,
          peerHashMap, metricsMap, mtask, nSent, caller, DumpSignalChan,
          stalled, freeIp, inUse, ifacePeers, now, status,
          daemon, routines, httpServer, lastSetup, nfm, nftask, recorded>>

endpointVars == <<nProxies, Config, ctxDone, LocalConn, RemoteConn>>
socketVars == <<sockOpen, sockQueue, sockLog, ifaceEndpoint>>
loopVars == <<loopPc, loopDg, bufLen, issued>>
registryVars == <<proxyPeerMap, peerHashMap>>
metricVars == <<metricsMap, mtask>>
\* The relay engine's own state.
relayVars == <<nProxies, Config, ctxDone, LocalConn, RemoteConn, sockOpen, sockQueue,
               sockLog, loopPc, loopDg, bufLen, issued, ppPc, ifaceEndpoint, proxyPeerMap,
               peerHashMap, metricsMap, mtask, nSent, caller, DumpSignalChan>>
allocVars == <<freeIp, inUse>>
statusVars == <<ifacePeers, now, status>>
\* What no step of the relay engine touches.
daemonVars == <<daemon, routines, httpServer, lastSetup>>
nftVars == <<nfm, nftask, recorded>>
\* The daemon and the firewall manager.
hostVars == <<daemonVars, nftVars>>
outerVars == <<stalled, allocVars, statusVars, hostVars>>

\* ---------------------------------------------------------------- helpers
RECURSIVE SumLens(_, _)
\* Sum of the lengths n of the metric tasks in set D.
SumLens(D, t) ==
  IF D = {} THEN 0
  ELSE LET d == CHOOSE x \in D : TRUE IN t[d].n + SumLens(D \ {d}, t)

IsPrefix(s, t) == Len(s) <= Len(t) /\ SubSeq(t, 1, Len(s)) = s

NoConfig == [PeerEndpoint |-> Nil, TurnConn |-> Nil,
             ProxyStatus |-> FALSE, UsingTurn |-> FALSE]

NoKeyEntry == [present |-> FALSE, Config |-> NoConfig, LocalConn |-> NoConn,
               ResetConn |-> 0, StopConn |-> 0, ServerMap |-> {}]

NoHashEntry == [present |-> FALSE, LocalConn |-> NoConn, ResetConn |-> 0, StopConn |-> 0]

NoTask == [pc |-> "none", n |-> 0, p |-> 0, found |-> FALSE, snap |-> {},
           todo |-> {}, srv |-> Nil, m |-> 0, updated |-> {}]

\* Nothing was pulled from the registry.
NoPull == [PeerEndpoint |-> Nil, TurnConn |-> Nil]

IdleCaller == [pc |-> "idle", p |-> 0, np |-> 0, pullErr |-> FALSE, pulled |-> NoPull]

\* A CIDR string net.ParseCIDR rejects.
BadCidr == [ok |-> FALSE, net |-> 0, bits |-> 0]

\* GetFreeIp not running, on a host whose runtime.GOOS is goos.
IdleFreeIp(goos) ==
  [pc |-> "idle", goos |-> goos, cidrAddr |-> BadCidr, dstPort |-> 0,
   newAddrs |-> NoAddr, probed |-> << >>, aliased |-> {}, conns |-> 0,
   ret |-> NoAddr, err |-> "", dialErr |-> "", calls |-> 0, prev |-> NoAddr,
   prevCidr |-> BadCidr, prevBound |-> FALSE]

\* ------------------------------------------------------------------- Init
\* The state after the peer's relay was first established: endpoint 1 was
\* built by New, started, and published in both registry indices.
InitRelayVars(endpoints, relayModes, turnModes) ==
  \E ep \in endpoints, ps \in relayModes, ut \in turnModes :
    LET cfg == [PeerEndpoint |-> ep, TurnConn |-> IF ut THEN "turn1" ELSE Nil,
                ProxyStatus |-> ps, UsingTurn |-> ut]
    IN /\ nProxies = 1
       /\ Config = [e \in ProxyIds |-> IF e = 1 THEN cfg ELSE NoConfig]
       /\ ctxDone = [e \in ProxyIds |-> FALSE]
       /\ LocalConn = [e \in ProxyIds |-> IF e = 1 THEN 1 ELSE NoConn]
       /\ RemoteConn = [e \in ProxyIds |-> IF e = 1 THEN ep ELSE Nil]
       /\ sockOpen = [e \in ProxyIds |-> e = 1]
       /\ sockQueue = [e \in ProxyIds |-> << >>]
       /\ sockLog = [e \in ProxyIds |-> << >>]
       /\ loopPc = [e \in ProxyIds |-> IF e = 1 THEN "select" ELSE "none"]
       /\ loopDg = [e \in ProxyIds |-> NoDg]
       /\ bufLen = [e \in ProxyIds |-> ReadBufSize]
       /\ issued = [e \in ProxyIds |-> << >>]
       /\ ppPc = [e \in ProxyIds |-> IF e = 1 THEN "wait" ELSE "none"]
       /\ ifaceEndpoint = 1
       /\ proxyPeerMap = [present |-> TRUE, Config |-> cfg, LocalConn |-> 1,
                          ResetConn |-> 1, StopConn |-> 1, ServerMap |-> Servers]
       /\ peerHashMap = [present |-> TRUE, LocalConn |-> 1, ResetConn |-> 0, StopConn |-> 0]
       /\ metricsMap = [s \in Servers |-> 0]
       /\ mtask = [d \in DatagramIds |-> NoTask]
       /\ nSent = 0
       /\ caller = [c \in Callers |-> IdleCaller]
       /\ DumpSignalChan = 0

\* No GetFreeIp call has been made and no address is bound.
InitAllocIdle ==
  /\ freeIp = IdleFreeIp("linux")
  /\ inUse = {}

\* No PeerConnectionStatus call has been made; the tunnel has no peer.
InitStatusIdle ==
  /\ ifacePeers = [err |-> FALSE, peers |-> << >>]
  /\ now = 0
  /\ status = << >>

\* No setupMQTT call has returned.
NoSetup == [tried |-> << >>, err |-> ""]

\* The daemon has not been started.
InitDaemonIdle ==
  /\ daemon = [pc |-> "none", gen |-> 0, hups |-> 0, quitCh |-> FALSE, resetCh |-> FALSE]
  /\ routines = {}
  /\ httpServer = [state |-> "none", starts |-> 0]
  /\ lastSetup = NoSetup

\* Goroutines that call the firewall manager.
NfTasks == {"t1", "t2"}

\* A firewall-manager task that runs no operation.
IdleNfTask ==
  [op |-> "none", key |-> "", ranges |-> {}, pc |-> "idle", ruleTable |-> 0,
   deferred |-> << >>, currEgressRanges |-> {}]

\* The firewall manager holds no rule table and nobody calls it.
InitNftIdle ==
  /\ nfm = [mux |-> "", ingRules |-> 0, tables |-> << >>, currEgressRangesMap |-> {},
            ops |-> 0]
  /\ nftask = [t \in NfTasks |-> IdleNfTask]
  /\ recorded = {}

InitHostIdle == InitDaemonIdle /\ InitNftIdle

\* The relay engine with every transport writable and nothing else going on.
InitWith(endpoints, relayModes, turnModes) ==
  /\ InitRelayVars(endpoints, relayModes, turnModes)
  /\ stalled = {}
  /\ InitAllocIdle
  /\ InitStatusIdle
  /\ InitHostIdle

\* ------------------------------------------------- tunnel software (input)
\* The tunnel writes a datagram to local relay socket s.
TunnelSendTo(s) ==
  /\ nSent < MaxDatagrams
  /\ sockOpen[s]
  /\ \E len \in DatagramLens :
       LET d == [id |-> nSent + 1, n |-> len] IN
       /\ sockQueue' = [sockQueue EXCEPT ![s] = Append(@, d)]
       /\ sockLog' = [sockLog EXCEPT ![s] = Append(@, d.id)]
  /\ nSent' = nSent + 1
  /\ UNCHANGED <<outerVars, endpointVars, sockOpen, ifaceEndpoint, loopVars, ppPc,
                 registryVars, metricVars, caller, DumpSignalChan>>

\* The tunnel writes a datagram to the socket its peer endpoint points at.
TunnelSend ==
  /\ ifaceEndpoint # NoConn
  /\ TunnelSendTo(ifaceEndpoint)

\* The send path of transport t stops accepting writes (its buffer is full and
\* does not drain): every write through it blocks from now on.  One such
\* fault is considered.
Stall(t) ==
  /\ stalled = {}
  /\ stalled' = {t}
  /\ UNCHANGED <<relayVars, hostVars, allocVars, statusVars>>

\* ------------------------------------------------------- Proxy.toRemote
\* A loop that looks at its token only after the read.
SelectIgnoresCancel(e) == "read"

\* The branch the select at the top of an iteration takes (lines 39-42): the
\* return when the token is cancelled, the read otherwise.
SelectBranch(e) == IF ctxDone[e] THEN "done" ELSE "read"

\* select { case <-p.Ctx.Done(): return; default: ... }
LoopSelect(e) ==
  /\ loopPc[e] = "select"
  /\ loopPc' = [loopPc EXCEPT ![e] = SelectBranch(e)]
  /\ UNCHANGED <<outerVars, ppPc, endpointVars, socketVars, loopDg, bufLen, issued, registryVars,
                 metricVars, nSent, caller, DumpSignalChan>>

\* A read that hands out the newest datagram queued instead of the oldest.
ReadDatagramNewest(q) == q[Len(q)]

\* The datagram LocalConn.Read hands out: the oldest one queued.
ReadDatagram(q) == Head(q)

\* Outcomes of the pre-send transform.
TransformResults == {"ok", "failed"}

\* ProcessPacketBeforeSending: re-encodes buf[:n] and returns the new buffer
\* and length; a failed transform returns no usable bytes.
ProcessPacketBeforeSending(d, res) ==
  [id |-> d.id, n |-> IF res = "failed" THEN 0 ELSE d.n + TransformOverhead,
   tr |-> IF res = "failed" THEN "failed" ELSE "ok"]

\* The buffer a working transform hands back: the one it was given, or a
\* slice of it that ends with the re-encoded datagram.
TransformBuffers == {"ok", "resliced"}

\* len of the newBuffer the transform returns, given a buffer of len bytes
\* holding datagram d.
ReturnedBufLen(len, d, res) ==
  IF res = "resliced" THEN d.n + TransformOverhead ELSE len

\* len(buf) after lines 62-69: buf is assigned the transform's first result.
BufAfterTransform(e, len, d, res) ==
  IF Config[e].ProxyStatus \/ Config[e].UsingTurn
  THEN ReturnedBufLen(len, d, res)
  ELSE len

\* The n LocalConn.Read returns for datagram d read into a buffer of len
\* bytes: what does not fit is dropped.
ReadLen(d, len) == [id |-> d.id, n |-> IF d.n <= len THEN d.n ELSE len]

\* What the loop holds after the optional transform (lines 62-69): buf and n
\* are overwritten with what the transform returned; the err tested at line
\* 66 is the read's, nil here, so a failed transform changes nothing else.
Transform(e, d, res) ==
  IF Config[e].ProxyStatus \/ Config[e].UsingTurn
  THEN ProcessPacketBeforeSending(d, res)
  ELSE [id |-> d.id, n |-> d.n, tr |-> "none"]

\* go func(n, cfg) {...}(n, p.Config): the goroutine starts at its lookup.
SpawnMetric(e, d) ==
  [NoTask EXCEPT !.pc = "lookup", !.n = d.n, !.p = e]

\* A read that stays blocked when its socket is closed under it.
ReadBlockedThroughClose(e) == FALSE

\* The blocked read returns an error once the socket has been closed.
ReadFailsOnClose(e) == ~sockOpen[LocalConn[e]]

\* A loop that takes its read's error for a passing one and reads again.
ReadErrRetried == "select"

\* Where the loop goes when the read returned an error (lines 45-48).
AfterReadErr == "done"

\* n, err := p.LocalConn.Read(buf): the read fails once the socket is closed
\* (the loop returns); otherwise it blocks until a datagram is queued, then
\* the metric goroutine is spawned and the datagram is transformed, the
\* transform ending in one of the given results.
LoopReadWith(e, results) ==
  /\ loopPc[e] = "read"
  /\ \/ /\ ReadFailsOnClose(e)
        /\ loopPc' = [loopPc EXCEPT ![e] = AfterReadErr]
        /\ UNCHANGED <<sockQueue, loopDg, bufLen, mtask>>
     \/ /\ sockOpen[LocalConn[e]]
        /\ sockQueue[LocalConn[e]] # << >>
        /\ LET q == ReadDatagram(sockQueue[LocalConn[e]])
               d == ReadLen(q, bufLen[e]) IN
           /\ sockQueue' = [sockQueue EXCEPT ![LocalConn[e]] =
                              SelectSeq(@, LAMBDA x : x # q)]
           /\ mtask' = [mtask EXCEPT ![d.id] = SpawnMetric(e, d)]
           /\ \E res \in results :
                /\ loopDg' = [loopDg EXCEPT ![e] = Transform(e, d, res)]
                /\ bufLen' = [bufLen EXCEPT ![e] = BufAfterTransform(e, @, d, res)]
        /\ loopPc' = [loopPc EXCEPT ![e] = "write"]
  /\ UNCHANGED <<outerVars, ppPc, endpointVars, sockOpen, sockLog, ifaceEndpoint, issued,
                 registryVars, metricsMap, nSent, caller, DumpSignalChan>>

\* The loop's read with a transform that works.
LoopRead(e) == LoopReadWith(e, {"ok"})

\* The loop's read with a transform that works and may hand back a buffer of
\* another size.
LoopReadResizing(e) == LoopReadWith(e, TransformBuffers)

\* The loop's read with a transform that may fail.
LoopReadFaulty(e) == LoopReadWith(e, TransformResults)

\* The read on the open socket returns an I/O error (lines 44-48): the same
\* error branch, taken while the endpoint is neither cancelled nor closed.
LoopReadErr(e) ==
  /\ loopPc[e] = "read"
  /\ sockOpen[LocalConn[e]]
  /\ loopPc' = [loopPc EXCEPT ![e] = AfterReadErr]
  /\ UNCHANGED <<outerVars, ppPc, endpointVars, socketVars, loopDg, bufLen, issued, registryVars,
                 metricVars, nSent, caller, DumpSignalChan>>

\* A loop whose TURN branch falls through to the uplink write as well.
WriteViaBoth(e) == IF Config[e].UsingTurn THEN <<"turn", "uplink">> ELSE <<"uplink">>

\* The transports the write of lines 74-84 goes through.
WriteVia(e) == IF Config[e].UsingTurn THEN <<"turn">> ELSE <<"uplink">>

\* A loop that sends everything, TURN traffic included, through the uplink.
WriteTransportUplinkOnly(e) == "uplink"

\* The object the write of lines 74-84 is made on: the peer's own TurnConn,
\* or server.NmProxyServer.Server, the one uplink socket of all peers.
WriteTransport(e) == IF Config[e].UsingTurn THEN Config[e].TurnConn ELSE "uplink"

\* A write that waits until the datagram's metric goroutine has finished.
CanWriteAfterMetric(e) == loopPc[e] = "write" /\ mtask[loopDg[e].id].pc = "done"

\* The loop reaches its write as soon as the datagram is read and transformed:
\* the metric goroutine was only spawned, nothing waits for it.  The write
\* itself returns once its transport accepts it.
CanWrite(e) == loopPc[e] = "write" /\ WriteTransport(e) \notin stalled

\* A loop that returns when its write failed.
WriteErrTerminal(ok) == IF ok THEN "select" ELSE "done"

\* Where the loop goes after its write (lines 75-85): back to the select,
\* a failure having only been logged.
AfterWrite(ok) == "select"

\* TurnConn.WriteTo / Server.WriteToUDP(buf[:n], p.RemoteConn): one write per
\* datagram, a failure is logged and the loop goes on.
LoopWrite(e) ==
  /\ CanWrite(e)
  /\ \E ok \in BOOLEAN :
       /\ issued' = [issued EXCEPT ![e] = @ \o
                       [i \in 1..Len(WriteVia(e)) |->
                          [id |-> loopDg[e].id, n |-> loopDg[e].n, tr |-> loopDg[e].tr,
                           via |-> WriteVia(e)[i], dst |-> RemoteConn[e], ok |-> ok]]]
       /\ loopPc' = [loopPc EXCEPT ![e] = AfterWrite(ok)]
  /\ loopDg' = [loopDg EXCEPT ![e] = NoDg]
  /\ UNCHANGED <<outerVars, ppPc, endpointVars, socketVars, bufLen, registryVars, metricVars,
                 nSent, caller, DumpSignalChan>>

\* ------------------------------------------------------ Proxy.ProxyPeer
\* A ProxyPeer that launches the loop and returns without waiting for it.
WaitSkipped(e) == TRUE

\* wg.Wait() (line 142) returns once the loop's deferred wg.Done() (line 37)
\* has run, that is once toRemote has returned.
WaitDone(e) == loopPc[e] = "done"

\* wg.Add(1); go p.toRemote(wg); wg.Wait(): ProxyPeer returns.
ProxyPeerReturn(e) ==
  /\ ppPc[e] = "wait"
  /\ WaitDone(e)
  /\ ppPc' = [ppPc EXCEPT ![e] = "returned"]
  /\ UNCHANGED <<outerVars, endpointVars, socketVars, loopVars, registryVars, metricVars,
                 nSent, caller, DumpSignalChan>>

\* ------------------------------------- detached metric goroutine (49-60)
\* if p.Config.ProxyStatus { peerConnCfg, _ = GetPeer(key) }: the servers the
\* goroutine will range over; none when relaying is off or the peer is absent.
MetricServers(e) ==
  IF Config[e].ProxyStatus /\ proxyPeerMap.present
  THEN proxyPeerMap.ServerMap ELSE {}

MetricLookup(d) ==
  /\ mtask[d].pc = "lookup"
  /\ LET snap == MetricServers(mtask[d].p) IN
     mtask' = [mtask EXCEPT ![d] =
                 [@ EXCEPT !.found = Config[mtask[d].p].ProxyStatus /\ proxyPeerMap.present,
                           !.snap = snap, !.todo = snap,
                           !.pc = IF snap = {} THEN "done" ELSE "get"]]
  /\ UNCHANGED <<outerVars, ppPc, endpointVars, socketVars, loopVars, registryVars, metricsMap,
                 nSent, caller, DumpSignalChan>>

\* metric := metrics.GetMetric(server, key): a copy of the stored counter.
MetricGet(d) ==
  /\ mtask[d].pc = "get"
  /\ \E s \in mtask[d].todo :
       mtask' = [mtask EXCEPT ![d] =
                   [@ EXCEPT !.srv = s, !.m = metricsMap[s], !.pc = "update"]]
  /\ UNCHANGED <<outerVars, ppPc, endpointVars, socketVars, loopVars, registryVars, metricsMap,
                 nSent, caller, DumpSignalChan>>

\* metric.TrafficSent += int64(n)
AddTraffic(m, n) == m + n

\* metrics.UpdateMetric(server, key, &metric): stores the goroutine's copy.
MetricUpdate(d) ==
  /\ mtask[d].pc = "update"
  /\ metricsMap' = [metricsMap EXCEPT ![mtask[d].srv] = AddTraffic(mtask[d].m, mtask[d].n)]
  /\ LET rest == mtask[d].todo \ {mtask[d].srv} IN
     mtask' = [mtask EXCEPT ![d] =
                 [@ EXCEPT !.todo = rest, !.updated = @ \cup {mtask[d].srv},
                           !.pc = IF rest = {} THEN "done" ELSE "get"]]
  /\ UNCHANGED <<outerVars, ppPc, endpointVars, socketVars, loopVars, registryVars, nSent,
                 caller, DumpSignalChan>>

\* --------------------------------------------------------- Proxy.Close
\* A Close that flips the socket's state instead of releasing it.
CloseFlipsSocket(p) ==
  /\ ctxDone' = [ctxDone EXCEPT ![p] = TRUE]
  /\ sockOpen' = [s \in ProxyIds |-> IF s = LocalConn[p] THEN ~sockOpen[s] ELSE sockOpen[s]]
  /\ sockQueue' = [s \in ProxyIds |-> IF s = LocalConn[p] THEN << >> ELSE sockQueue[s]]

\* p.Cancel(); p.LocalConn.Close(): the token is cancelled and the socket
\* released (what it still queued is discarded).  Idempotent.
CloseProxy(p) ==
  /\ ctxDone' = [ctxDone EXCEPT ![p] = TRUE]
  /\ sockOpen' = [s \in ProxyIds |-> IF s = LocalConn[p] THEN FALSE ELSE sockOpen[s]]
  /\ sockQueue' = [s \in ProxyIds |-> IF s = LocalConn[p] THEN << >> ELSE sockQueue[s]]

\* A forwarding loop that has been launched and has not returned.
LoopActive(e) == loopPc[e] \in {"select", "read", "write"}

\* An active loop whose token has not been cancelled.
LiveLoop(e) == LoopActive(e) /\ ~ctxDone[e]

\* Resets that have not yet constructed their replacement.
PendingNew == {c \in Callers : caller[c].pc \in {"r_close", "r_pull", "r_start"}}

\* Callers inside Reset.
InReset(c) == caller[c].pc # "idle"

\* The control plane fetches the peer's entry and calls entry.ResetConn().
\* Callers are interchangeable: "c2" is the one whose Reset overlaps c1's.
CallReset(c) ==
  /\ caller[c].pc = "idle"
  /\ (c = "c2" => caller["c1"].pc # "idle")
  /\ proxyPeerMap.present
  /\ nProxies + Cardinality(PendingNew) < MaxProxies
  /\ caller' = [caller EXCEPT ![c] =
                  [IdleCaller EXCEPT !.pc = "r_close", !.p = proxyPeerMap.ResetConn]]
  /\ UNCHANGED <<outerVars, ppPc, endpointVars, socketVars, loopVars, registryVars, metricVars,
                 nSent, DumpSignalChan>>

\* The control plane fetches the peer's entry and calls entry.StopConn().
CallClose ==
  /\ proxyPeerMap.present
  /\ ~ctxDone[proxyPeerMap.StopConn]
  /\ CloseProxy(proxyPeerMap.StopConn)
  /\ UNCHANGED <<outerVars, ppPc, nProxies, Config, LocalConn, RemoteConn, sockLog, ifaceEndpoint,
                 loopVars, registryVars, metricVars, nSent, caller, DumpSignalChan>>

\* Registry Remove(pubkey): deletes the entries of both indices.
RemovePeer ==
  /\ proxyPeerMap.present \/ peerHashMap.present
  /\ proxyPeerMap' = NoKeyEntry
  /\ peerHashMap' = NoHashEntry
  /\ UNCHANGED <<outerVars, ppPc, endpointVars, socketVars, loopVars, metricVars, nSent,
                 caller, DumpSignalChan>>

\* A control-plane update of the peer's endpoint / TURN transport in the registry.
UpdatePeerCfg ==
  /\ proxyPeerMap.present
  /\ proxyPeerMap.Config.PeerEndpoint # "ep2"
  /\ proxyPeerMap' = [proxyPeerMap EXCEPT
                        !.Config.PeerEndpoint = "ep2",
                        !.Config.TurnConn = IF @ = Nil THEN Nil ELSE "turn2"]
  /\ UNCHANGED <<outerVars, ppPc, endpointVars, socketVars, loopVars, peerHashMap, metricVars,
                 nSent, caller, DumpSignalChan>>

\* ---------------------------------------------------------- Proxy.Reset
\* A Reset that goes on to the pull whatever the endpoint's PeerEndpoint is.
AfterCloseAlwaysPull(p) == "r_pull"

\* Where Reset goes after p.Close() (lines 95-97): it returns when the
\* endpoint has no PeerEndpoint and goes on to the pull otherwise.
AfterClose(p) == IF Config[p].PeerEndpoint = Nil THEN "idle" ELSE "r_pull"

\* p.Close(); if p.Config.PeerEndpoint == nil { return }
ResetClose(c) ==
  /\ caller[c].pc = "r_close"
  /\ CloseProxy(caller[c].p)
  /\ caller' = [caller EXCEPT ![c] =
                  IF AfterClose(caller[c].p) = "idle"
                  THEN IdleCaller
                  ELSE [@ EXCEPT !.pc = AfterClose(caller[c].p)]]
  /\ UNCHANGED <<outerVars, ppPc, nProxies, Config, LocalConn, RemoteConn, sockLog, ifaceEndpoint,
                 loopVars, registryVars, metricVars, nSent, DumpSignalChan>>

\* Where Reset goes after pullLatestConfig returned (lines 98-101): the error
\* is logged and Reset goes on to build the replacement either way.
AfterPull(found) == "r_start"

\* What pullLatestConfig read in the registry (lines 126-129): the entry's
\* PeerEndpoint and TurnConn, nothing when the peer is not found.
PulledFrom(found) ==
  IF found
  THEN [PeerEndpoint |-> proxyPeerMap.Config.PeerEndpoint,
        TurnConn |-> proxyPeerMap.Config.TurnConn]
  ELSE NoPull

\* pullLatestConfig: copies the registry's PeerEndpoint and TurnConn into
\* p.Config, or yields "peer not found".
ResetPull(c) ==
  /\ caller[c].pc = "r_pull"
  /\ LET p == caller[c].p  found == proxyPeerMap.present IN
     /\ Config' = IF found
                  THEN [Config EXCEPT ![p].PeerEndpoint = proxyPeerMap.Config.PeerEndpoint,
                                      ![p].TurnConn = proxyPeerMap.Config.TurnConn]
                  ELSE Config
     /\ caller' = [caller EXCEPT ![c] =
                     IF AfterPull(found) = "r_start"
                     THEN [@ EXCEPT !.pc = "r_start", !.pullErr = ~found,
                                    !.pulled = PulledFrom(found)]
                     ELSE IdleCaller]
  /\ UNCHANGED <<outerVars, ppPc, nProxies, ctxDone, LocalConn, RemoteConn, socketVars, loopVars,
                 registryVars, metricVars, nSent, DumpSignalChan>>

\* Outcomes of Start on the replacement: the socket cannot be created, the
\* local address does not resolve (updateEndpoint fails), or Start succeeds.
StartOutcomes == {"bindFail", "resolveFail", "ok"}

\* The same with a tunnel interface that may reject the new peer endpoint
\* (UpdatePeerEndpoint fails).
StartOutcomesFaulty == StartOutcomes \cup {"ifaceFail"}

\* The error Start returns: updateEndpoint (lines 147-158) returns one only
\* when the address does not resolve; what UpdatePeerEndpoint did at line 156
\* is not looked at and nil is returned.
StartErr(out) == out \in {"bindFail", "resolveFail"}

\* A Reset that only logs the error of Start and goes on to republish.
StartErrIgnored(err) == "r_get"

\* Where Reset goes after p.Start() returned (lines 102-107): it returns on an
\* error and goes on to the registry otherwise.
AfterStartCall(err) == IF err THEN "idle" ELSE "r_get"

\* p = New(p.Config); err := p.Start(); if err != nil { return }
\* A Start without error has bound the socket and launched ProxyPeer, which
\* launches the loop.
ResetStartWith(c, outcomes) ==
  /\ caller[c].pc = "r_start"
  /\ nProxies < MaxProxies
  /\ LET p == caller[c].p  np == nProxies + 1 IN
     \E out \in outcomes :
       /\ nProxies' = np
       /\ Config' = [Config EXCEPT ![np] = Config[p]]
       /\ IF ~StartErr(out)
          THEN /\ RemoteConn' = [RemoteConn EXCEPT ![np] = Config[p].PeerEndpoint]
               /\ LocalConn' = [LocalConn EXCEPT ![np] = np]
               /\ sockOpen' = [sockOpen EXCEPT ![np] = TRUE]
               /\ ifaceEndpoint' = IF out = "ok" THEN np ELSE ifaceEndpoint
               /\ loopPc' = [loopPc EXCEPT ![np] = "select"]
               /\ ppPc' = [ppPc EXCEPT ![np] = "wait"]
          ELSE UNCHANGED <<RemoteConn, LocalConn, sockOpen, ifaceEndpoint, loopPc, ppPc>>
       /\ caller' = [caller EXCEPT ![c] =
                       IF AfterStartCall(StartErr(out)) = "idle" THEN IdleCaller
                       ELSE [@ EXCEPT !.pc = AfterStartCall(StartErr(out)), !.np = np,
                                      !.pulled = NoPull]]
  /\ UNCHANGED <<outerVars, ctxDone, sockQueue, sockLog, loopDg, bufLen, issued, registryVars,
                 metricVars, nSent, DumpSignalChan>>

\* Reset's Start with a tunnel interface that accepts every update.
ResetStart(c) == ResetStartWith(c, StartOutcomes)

\* Reset's Start with a tunnel interface that may reject the update.
ResetStartFaulty(c) == ResetStartWith(c, StartOutcomesFaulty)

\* peer, found := GetPeer(key) (line 109): a copy of the entry.
ResetGetPeer(c) ==
  /\ caller[c].pc = "r_get"
  /\ caller' = [caller EXCEPT ![c] =
                  [@ EXCEPT !.pc = IF proxyPeerMap.present THEN "r_save" ELSE "r_gethash"]]
  /\ UNCHANGED <<outerVars, ppPc, endpointVars, socketVars, loopVars, registryVars, metricVars,
                 nSent, DumpSignalChan>>

\* The key-indexed entry Reset saves (lines 110-113): the copy with the
\* replacement's config, socket and lifecycle handles.
KeyEntryAfterReset(np) ==
  [present |-> TRUE, Config |-> Config[np], LocalConn |-> LocalConn[np],
   ResetConn |-> np, StopConn |-> np, ServerMap |-> Servers]

\* config.GetCfg().SavePeer(&peer) (line 114): an upsert.
ResetSavePeer(c) ==
  /\ caller[c].pc = "r_save"
  /\ proxyPeerMap' = KeyEntryAfterReset(caller[c].np)
  /\ caller' = [caller EXCEPT ![c] = [@ EXCEPT !.pc = "r_gethash"]]
  /\ UNCHANGED <<outerVars, ppPc, endpointVars, socketVars, loopVars, peerHashMap, metricVars,
                 nSent, DumpSignalChan>>

\* peer, found := GetPeerInfoByHash(hash) (line 116).
ResetGetPeerByHash(c) ==
  /\ caller[c].pc = "r_gethash"
  /\ caller' = [caller EXCEPT ![c] =
                  [@ EXCEPT !.pc = IF peerHashMap.present THEN "r_savehash" ELSE "r_signal"]]
  /\ UNCHANGED <<outerVars, ppPc, endpointVars, socketVars, loopVars, registryVars, metricVars,
                 nSent, DumpSignalChan>>

\* A save by hash that leaves the entry's LocalConn as it was.
HashEntryKeepsConn(np) ==
  [present |-> TRUE, LocalConn |-> peerHashMap.LocalConn, ResetConn |-> 0, StopConn |-> 0]

\* The hash-indexed entry Reset saves (line 117): only LocalConn is set.
HashEntryAfterReset(np) ==
  [present |-> TRUE, LocalConn |-> LocalConn[np], ResetConn |-> 0, StopConn |-> 0]

\* config.GetCfg().SavePeerByHash(&peer) (line 118): an upsert.
ResetSavePeerByHash(c) ==
  /\ caller[c].pc = "r_savehash"
  /\ peerHashMap' = HashEntryAfterReset(caller[c].np)
  /\ caller' = [caller EXCEPT ![c] = [@ EXCEPT !.pc = "r_signal"]]
  /\ UNCHANGED <<outerVars, ppPc, endpointVars, socketVars, loopVars, proxyPeerMap, metricVars,
                 nSent, DumpSignalChan>>

\* Capacity of config.DumpSignalChan.
DumpChanCap == 1

\* config.DumpSignalChan <- struct{}{}: completes when the channel has room.
ResetSignal(c) ==
  /\ caller[c].pc = "r_signal"
  /\ DumpSignalChan < DumpChanCap
  /\ DumpSignalChan' = DumpSignalChan + 1
  /\ caller' = [caller EXCEPT ![c] = IdleCaller]
  /\ UNCHANGED <<outerVars, ppPc, endpointVars, socketVars, loopVars, registryVars, metricVars, nSent>>

\* The external persistence task receives one signal.
PersistReceive ==
  /\ DumpSignalChan > 0
  /\ DumpSignalChan' = DumpSignalChan - 1
  /\ UNCHANGED <<outerVars, ppPc, endpointVars, socketVars, loopVars, registryVars, metricVars,
                 nSent, caller>>

\* ------------------------------------------------------------ GetFreeIp
RECURSIVE Pow2(_)
Pow2(k) == IF k = 0 THEN 1 ELSE 2 * Pow2(k - 1)

\* The CIDR strings handed in: an unparsable one, and IPv4 blocks of 4 to
\* 2^MaxHostBits addresses on one network address (addresses are integers).
CidrInputs ==
  {BadCidr} \cup {[ok |-> TRUE, net |-> Pow2(MaxHostBits), bits |-> b] : b \in 2..MaxHostBits}

\* Destination ports handed in: unset, and the tunnel's listen port.
DstPorts == {0, 51820}

\* Addresses of block n (network and broadcast address included).
CidrAddrs(n) == n.net .. (n.net + Pow2(n.bits) - 1)

BroadcastAddress(n) == n.net + Pow2(n.bits) - 1

\* net4.FirstAddress(): the first usable address, the one after the network
\* address.
FirstAddress(n) == n.net + 1

\* net4.NextIP(ip): the address after ip; with an error when that address is
\* the block's broadcast address or lies outside the block.
NextIP(n, ip) ==
  IF ip + 1 > BroadcastAddress(n)
  THEN [ip |-> NoAddr, err |-> "address is out of range"]
  ELSE IF ip + 1 = BroadcastAddress(n)
  THEN [ip |-> ip + 1, err |-> "address is a broadcast address"]
  ELSE [ip |-> ip + 1, err |-> ""]

\* An allocator that takes only a missing local address for a passing error.
RetryOnUnassignableOnly ==
  {"can't assign requested address", "cannot assign requested address"}

\* An allocator that takes only "address already in use" for a passing error.
RetryOnInUseOnly == {"address already in use"}

\* The DialUDP errors after which the next address is tried (lines 189-190).
RetryClass ==
  {"can't assign requested address", "address already in use",
   "cannot assign requested address"}

\* What net.DialUDP from address a (proxy port) to 127.0.0.1:dstPort can
\* yield: "address already in use" when a socket is bound there; otherwise
\* success (""), no such local address on this host, or a fatal error.
DialOutcomes(a, goos) ==
  IF a \in inUse THEN {"address already in use"}
  ELSE {"", "permission denied",
        IF goos = "darwin" THEN "can't assign requested address"
        ELSE "cannot assign requested address"}

\* A caller asks for a free address of the block cidr for port.
CallGetFreeIp(cidr, port) ==
  /\ freeIp.pc \in {"idle", "done"}
  /\ freeIp.calls < MaxCalls
  /\ LET got == freeIp.pc = "done" /\ freeIp.err = "" IN
     freeIp' = [IdleFreeIp(freeIp.goos) EXCEPT
                  !.pc = "check", !.cidrAddr = cidr, !.dstPort = port,
                  !.calls = freeIp.calls + 1,
                  !.prev = IF got THEN freeIp.ret ELSE NoAddr,
                  !.prevCidr = IF got THEN freeIp.cidrAddr ELSE BadCidr,
                  !.prevBound = got /\ freeIp.ret \in inUse]
  /\ UNCHANGED <<relayVars, hostVars, stalled, inUse, statusVars>>

\* An allocator that starts probing whatever its arguments are.
ArgErrNone(cidr, port) == ""

\* The argument checks of lines 163-169.
ArgErr(cidr, port) ==
  IF port = 0 THEN "dst port should be set"
  ELSE IF ~cidr.ok THEN "invalid CIDR address"
  ELSE ""

\* Lines 163-171: return on a bad argument, else start at the first address.
FreeIpCheck ==
  /\ freeIp.pc = "check"
  /\ freeIp' = IF ArgErr(freeIp.cidrAddr, freeIp.dstPort) # ""
               THEN [freeIp EXCEPT !.pc = "done",
                                   !.err = ArgErr(freeIp.cidrAddr, freeIp.dstPort)]
               ELSE [freeIp EXCEPT !.pc = "probe",
                                   !.newAddrs = FirstAddress(freeIp.cidrAddr)]
  /\ UNCHANGED <<relayVars, hostVars, stalled, inUse, statusVars>>

\* A return that leaves the probe socket open.
ProbeLeftOpen(k) == k

\* conn.Close() (line 201): the probe socket is released.
ProbeClosed(k) == k - 1

\* An allocator that tries the same address again after a passing error.
SameAddrAgain(n, ip) == [ip |-> ip, err |-> ""]

\* An allocator that moves on without looking at the error of NextIP.
AdvanceUnchecked(n, ip) == [ip |-> ip + 1, err |-> ""]

\* Address advancement after a passing error (line 192).
Advance(n, ip) == NextIP(n, ip)

\* One turn of the loop of lines 172-205: on darwin alias the candidate, dial
\* from it, then return it, move to the next address, or return the error.
FreeIpProbe ==
  /\ freeIp.pc = "probe"
  /\ \E dialErr \in DialOutcomes(freeIp.newAddrs, freeIp.goos) :
       LET a == freeIp.newAddrs
           seen == [freeIp EXCEPT
                      !.probed = Append(@, a), !.dialErr = dialErr,
                      !.aliased = IF freeIp.goos = "darwin" THEN @ \cup {a} ELSE @]
           next == Advance(freeIp.cidrAddr, a)
       IN freeIp' =
            IF dialErr = ""
            THEN [seen EXCEPT !.pc = "done", !.ret = a,
                              !.conns = ProbeClosed(@ + 1)]
            ELSE IF dialErr \in RetryClass
            THEN IF next.err # ""
                 THEN [seen EXCEPT !.pc = "done", !.newAddrs = next.ip, !.err = next.err]
                 ELSE [seen EXCEPT !.newAddrs = next.ip]
            ELSE [seen EXCEPT !.pc = "done", !.err = dialErr]
  /\ UNCHANGED <<relayVars, hostVars, stalled, inUse, statusVars>>

\* The caller binds its relay socket to the address GetFreeIp returned.
BindReturned ==
  /\ freeIp.pc = "done" /\ freeIp.err = ""
  /\ freeIp.ret \notin inUse
  /\ inUse' = inUse \cup {freeIp.ret}
  /\ UNCHANGED <<relayVars, hostVars, stalled, freeIp, statusVars>>

\* -------------------------------------------------- PeerConnectionStatus
\* 3*time.Minute, in seconds.
HandshakeWindow == 180

\* Public keys: two the tunnel may know and one it never does.
PeerKeys == {"kA", "kB"}
AskedKeys == PeerKeys \cup {"kC"}

\* The instant of the first call, and the handshake instants considered: 3m1s,
\* 3m and 2m59s before it, and that very instant.
StartTime == HandshakeWindow + 1
HandshakeTimes == {0, 1, 2, StartTime}

\* Byte counters (received, transmitted) of a tunnel peer.
ByteCounts == {<<0, 0>>, <<1, 0>>, <<0, 1>>}

\* The tunnel's peers as wg.GetPeers lists them.
PeerEntries ==
  {[PublicKey |-> k, LastHandshakeTime |-> h, ReceiveBytes |-> b[1], TransmitBytes |-> b[2]] :
     k \in PeerKeys, h \in HandshakeTimes, b \in ByteCounts}

\* Peer lists: no peer, one peer, or "kA" and "kB" in either order.
PeerLists ==
  {<< >>} \cup {<<p>> : p \in PeerEntries}
  \cup {l \in {<<p, q>> : p \in PeerEntries, q \in PeerEntries} :
          l[1].PublicKey # l[2].PublicKey}

\* A monitor for which a recent handshake is enough.
ConnectedByHandshake(peer, t) == peer.LastHandshakeTime > t - HandshakeWindow

\* Line 216: LastHandshakeTime.After(now - 3min) && ReceiveBytes+TransmitBytes > 0.
Connected(peer, t) ==
  /\ peer.LastHandshakeTime > t - HandshakeWindow
  /\ peer.ReceiveBytes + peer.TransmitBytes > 0

RECURSIVE ScanPeers(_, _, _)
\* Lines 214-219: the first entry with the key decides; false when none has it.
ScanPeers(peers, key, t) ==
  IF peers = << >> THEN FALSE
  ELSE IF Head(peers).PublicKey = key THEN Connected(Head(peers), t)
  ELSE ScanPeers(Tail(peers), key, t)

\* A monitor that goes through the list it was given although GetPeers failed.
StatusDespiteErr(key) == ScanPeers(ifacePeers.peers, key, now)

\* Lines 211-213: the result when wg.GetPeers returned an error.
StatusOnErr(key) == FALSE

\* A monitor that repeats what it answered for the key before.
CachedStatus(key) ==
  IF \E i \in 1..Len(status) : status[i].key = key
  THEN status[CHOOSE i \in 1..Len(status) : status[i].key = key].ret
  ELSE IF ifacePeers.err THEN StatusOnErr(key)
  ELSE ScanPeers(ifacePeers.peers, key, now)

\* What PeerConnectionStatus(key) returns (lines 209-220).
StatusResult(key) ==
  IF ifacePeers.err THEN StatusOnErr(key)
  ELSE ScanPeers(ifacePeers.peers, key, now)

\* A call of PeerConnectionStatus: the call and its result are put on record.
PeerConnectionStatus(key) ==
  /\ Len(status) < MaxCalls
  /\ status' = Append(status, [key |-> key, at |-> now, ret |-> StatusResult(key)])
  /\ UNCHANGED <<relayVars, hostVars, stalled, allocVars, ifacePeers, now>>

\* A second passes.
Tick ==
  /\ now < StartTime + MaxTicks
  /\ now' = now + 1
  /\ UNCHANGED <<relayVars, hostVars, stalled, allocVars, ifacePeers, status>>

\* ---------------------------------------------------------------- Daemon
\* Attempts of the connect loop of setupMQTT (for count := 0; count < 3).
MaxConnects == 3

\* How one mqclient.Connect() ends: connected within 30 s, not finished
\* within 30 s, or finished with an error.
ConnectOutcomes == {"ok", "timeout", "error"}

\* Goroutines startGoRoutines launches, one messageQueue per server.
Workers == {"mq", "checkin", "iface"}

\* A goroutine counted by the daemon's WaitGroup, of generation g.
Routine(w, g) ==
  [w |-> w, gen |-> g, cancelled |-> FALSE, pc |-> IF w = "mq" THEN "connect" ELSE "run",
   count |-> 0, connecterr |-> "", tried |-> << >>]

\* A daemon that hands the HTTP server's cancel to closeRoutines as well.
ClosersWithHttp == {"workers", "proxy", "http"}

\* The cancel functions handed to closeRoutines (lines 88-91 and 98-101):
\* cancel of startGoRoutines and stopProxy of startProxy.
Closers == {"workers", "proxy"}

\* The context of goroutine r is cancelled by one of the closers.
CancelledBy(closers, r) ==
  IF r.w = "proxy" THEN "proxy" \in closers ELSE "workers" \in closers

\* A closeRoutines that goes on without waiting.
WgWaitSkipped == TRUE

\* wg.Wait() (line 127) returns once every counted goroutine has finished.
WgWait == routines = {}

\* SIGHUP: signal.Notify puts it in the reset channel (capacity 1) if there
\* is room and drops it otherwise.
SigHup ==
  /\ daemon.pc \notin {"none", "returned"}
  /\ daemon.hups < MaxResets
  /\ daemon' = [daemon EXCEPT !.hups = @ + 1, !.resetCh = TRUE]
  /\ UNCHANGED <<relayVars, stalled, allocVars, statusVars, nftVars, routines, httpServer,
                 lastSetup>>

\* SIGTERM or interrupt.
SigTerm ==
  /\ daemon.pc \notin {"none", "returned"}
  /\ ~daemon.quitCh
  /\ daemon' = [daemon EXCEPT !.quitCh = TRUE]
  /\ UNCHANGED <<relayVars, stalled, allocVars, statusVars, nftVars, routines, httpServer,
                 lastSetup>>

\* select { case <-quit: ...; case <-reset: ... } (lines 85-96).
DaemonSelect ==
  /\ daemon.pc = "select"
  /\ \/ /\ daemon.quitCh
        /\ daemon' = [daemon EXCEPT !.quitCh = FALSE, !.pc = "q_cancel"]
     \/ /\ daemon.resetCh
        /\ daemon' = [daemon EXCEPT !.resetCh = FALSE, !.pc = "r_cancel"]
  /\ UNCHANGED <<relayVars, stalled, allocVars, statusVars, nftVars, routines, httpServer,
                 lastSetup>>

\* closeRoutines, lines 119-126: every closer is called (the brokers are
\* disconnected).
CloseCancel ==
  /\ daemon.pc \in {"q_cancel", "r_cancel"}
  /\ routines' = {[r EXCEPT !.cancelled = @ \/ CancelledBy(Closers, r)] : r \in routines}
  /\ httpServer' = IF "http" \in Closers /\ httpServer.state = "running"
                   THEN [httpServer EXCEPT !.state = "cancelled"]
                   ELSE httpServer
  /\ daemon' = [daemon EXCEPT !.pc = IF daemon.pc = "q_cancel" THEN "q_wait" ELSE "r_wait"]
  /\ UNCHANGED <<relayVars, stalled, allocVars, statusVars, nftVars, lastSetup>>

\* closeRoutines, lines 127-130: wg.Wait() returns and the interface is closed.
CloseWait ==
  /\ daemon.pc \in {"q_wait", "r_wait"}
  /\ WgWait
  /\ daemon' = [daemon EXCEPT !.pc = IF daemon.pc = "q_wait" THEN "q_http" ELSE "r_start"]
  /\ UNCHANGED <<relayVars, stalled, allocVars, statusVars, nftVars, routines, httpServer,
                 lastSetup>>

\* Lines 102-113: startGoRoutines launches the next generation, and the proxy
\* is started again unless the proxy configuration says it is running.
Restart ==
  /\ daemon.pc = "r_start"
  /\ \E proxyStatus \in BOOLEAN :
       routines' = routines
                     \cup {Routine(w, daemon.gen + 1) : w \in Workers}
                     \cup (IF proxyStatus THEN {} ELSE {Routine("proxy", daemon.gen + 1)})
  /\ daemon' = [daemon EXCEPT !.gen = @ + 1, !.pc = "select"]
  /\ UNCHANGED <<relayVars, stalled, allocVars, statusVars, nftVars, httpServer, lastSetup>>

\* httpCancel() (line 92).
HttpCancel ==
  /\ daemon.pc = "q_http"
  /\ httpServer' = [httpServer EXCEPT !.state = IF @ = "running" THEN "cancelled" ELSE @]
  /\ daemon' = [daemon EXCEPT !.pc = "q_httpwait"]
  /\ UNCHANGED <<relayVars, stalled, allocVars, statusVars, nftVars, routines, lastSetup>>

\* httpWg.Wait(); return (lines 93-95).
DaemonReturn ==
  /\ daemon.pc = "q_httpwait"
  /\ httpServer.state = "done"
  /\ daemon' = [daemon EXCEPT !.pc = "returned"]
  /\ UNCHANGED <<relayVars, stalled, allocVars, statusVars, nftVars, routines, httpServer,
                 lastSetup>>

\* The HTTP server returns once its context is cancelled.
HttpExit ==
  /\ httpServer.state = "cancelled"
  /\ httpServer' = [httpServer EXCEPT !.state = "done"]
  /\ UNCHANGED <<relayVars, stalled, allocVars, statusVars, nftVars, daemon, routines,
                 lastSetup>>

\* Checkin, StartIfaceDetection, the proxy, and a messageQueue past its
\* setup return once their context is cancelled (<-ctx.Done(), line 190).
RoutineExit(r) ==
  /\ r \in routines
  /\ r.pc = "run"
  /\ r.cancelled
  /\ routines' = routines \ {r}
  /\ UNCHANGED <<relayVars, stalled, allocVars, statusVars, nftVars, daemon, httpServer,
                 lastSetup>>

\* The error one pass of the connect loop leaves in connecterr (lines
\* 238-246): nil on entry, then the timeout or the token's error.
ConnectErr(outcome) == IF outcome = "ok" THEN "" ELSE outcome

\* One pass of the connect loop of setupMQTT (lines 237-247); after the last
\* pass setupMQTT returns connecterr (lines 248-251) and messageQueue returns
\* on an error (lines 184-188) or goes on to wait for its context.
MqConnect(r) ==
  /\ r \in routines
  /\ r.pc = "connect"
  /\ r.count < MaxConnects
  /\ \E outcome \in ConnectOutcomes :
       LET tried == Append(r.tried, outcome)
           err == ConnectErr(outcome)
           last == r.count + 1 = MaxConnects
       IN /\ routines' =
               (routines \ {r}) \cup
               (IF last /\ err # "" THEN {}
                ELSE {[r EXCEPT !.count = @ + 1, !.tried = tried, !.connecterr = err,
                                !.pc = IF last THEN "run" ELSE "connect"]})
          /\ lastSetup' = IF last THEN [tried |-> tried, err |-> err] ELSE lastSetup
  /\ UNCHANGED <<relayVars, stalled, allocVars, statusVars, nftVars, daemon, httpServer>>

\* ------------------------------------------------------ nftablesManager
\* Ext clients (keys of the ingress rule table) and egress ranges.
ExtKeys == {"x1", "x2"}

\* The egress ranges handed in: none, or one range.
RangeInputs == {{}, {"r1"}, {"r2"}}

\* The public operations considered and the arguments they are called with;
\* the other table operations have the locking skeleton of one of these.
NfCalls ==
  {[op |-> "InsertIngress", key |-> k, ranges |-> r] : k \in ExtKeys, r \in {{"r1"}}}
  \cup {[op |-> "Remove", key |-> k, ranges |-> {}] : k \in {"x1"}}
  \cup {[op |-> "Refresh", key |-> "", ranges |-> r] : r \in RangeInputs}
  \cup {[op |-> o, key |-> "", ranges |-> {}] : o \in {"Clean", "Forward"}}

\* An ext client the rule table has no entry for.
NoExt == [present |-> FALSE, egress |-> {}]

\* make(ruletable)
EmptyTable == [k \in ExtKeys |-> NoExt]

\* Where an operation starts: ForwardRule goes straight to CreateChains,
\* which locks; the others fetch the rule table first.
FirstStep(op) == IF op = "Forward" THEN "lock" ELSE "fetch"

\* A task calls an operation of the manager.
CallOp(t) ==
  /\ nftask[t].pc = "idle"
  /\ nfm.ops < MaxOps
  /\ \E c \in NfCalls :
       nftask' = [nftask EXCEPT ![t] =
                    [IdleNfTask EXCEPT !.op = c.op, !.key = c.key, !.ranges = c.ranges,
                                       !.pc = FirstStep(c.op)]]
  /\ nfm' = [nfm EXCEPT !.ops = @ + 1]
  /\ UNCHANGED <<relayVars, stalled, allocVars, statusVars, daemonVars, recorded>>

\* FetchRuleTable (lines 1803-1820), under the lock from start to end: the
\* server's table, which is a reference to the stored map, or a new empty map
\* when the server has none.
NfFetch(t) ==
  /\ nftask[t].pc = "fetch"
  /\ nfm.mux = ""
  /\ IF nfm.ingRules = 0
     THEN /\ nfm' = [nfm EXCEPT !.tables = Append(@, EmptyTable)]
          /\ nftask' = [nftask EXCEPT ![t].ruleTable = Len(nfm.tables) + 1, ![t].pc = "lock"]
     ELSE /\ nfm' = nfm
          /\ nftask' = [nftask EXCEPT ![t].ruleTable = nfm.ingRules, ![t].pc = "lock"]
  /\ UNCHANGED <<relayVars, stalled, allocVars, statusVars, daemonVars, recorded>>

\* n.mux.Lock() in the operation's own body (or in CreateChains).
NfLock(t) ==
  /\ nftask[t].pc = "lock"
  /\ nfm.mux = ""
  /\ nfm' = [nfm EXCEPT !.mux = t]
  /\ nftask' = [nftask EXCEPT ![t].pc = "body"]
  /\ UNCHANGED <<relayVars, stalled, allocVars, statusVars, daemonVars, recorded>>

\* An operation whose deferred save runs before its deferred unlock.
DeferredSaveFirst(op) ==
  IF op = "Forward" THEN <<"unlock">>
  ELSE IF op = "Clean" THEN <<"delete", "unlock">>
  ELSE <<"save", "unlock">>

\* The deferred calls of an operation in the order they run (last deferred
\* first): the unlock, then SaveRules or DeleteRuleTable.
Deferred(op) ==
  IF op = "Forward" THEN <<"unlock">>
  ELSE IF op = "Clean" THEN <<"unlock", "delete">>
  ELSE <<"unlock", "save">>

\* The test of line 1561: the new ranges are empty or their number differs
\* from the number of current ranges.
RangesChanged(new, curr) == new = {} \/ Cardinality(new) # Cardinality(curr)

\* Lines 1564-1580 and 1591-1798: the egress ext rules of every ext client in
\* the table are deleted and, if there are new ranges, created for them.
RefreshedTable(tbl, new) ==
  [k \in ExtKeys |-> IF tbl[k].present THEN [tbl[k] EXCEPT !.egress = new] ELSE tbl[k]]

\* The rule table after the body of the operation of task t.
TableAfter(t, tbl) ==
  LET a == nftask[t] IN
  CASE a.op = "InsertIngress" ->
         [tbl EXCEPT ![a.key] = [present |-> TRUE, egress |-> a.ranges]]
    [] a.op = "Remove" -> [tbl EXCEPT ![a.key] = NoExt]
    [] a.op = "Refresh" ->
         IF RangesChanged(a.ranges, nfm.currEgressRangesMap)
         THEN RefreshedTable(tbl, a.ranges)
         ELSE tbl
    [] OTHER -> tbl

\* The body of the operation, run holding the lock; the map it works on is
\* changed in place.
NfBody(t) ==
  /\ nftask[t].pc = "body"
  /\ LET a == nftask[t]  id == a.ruleTable IN
     /\ nfm' = IF a.op = "Forward" THEN nfm
               ELSE [nfm EXCEPT !.tables[id] = TableAfter(t, @)]
     /\ nftask' = [nftask EXCEPT ![t].pc = "defer", ![t].deferred = Deferred(a.op),
                                 ![t].currEgressRanges = nfm.currEgressRangesMap]
     /\ recorded' = CASE a.op = "InsertIngress" -> recorded \cup {a.key}
                      [] a.op = "Remove" -> recorded \ {a.key}
                      [] OTHER -> recorded
  /\ UNCHANGED <<relayVars, stalled, allocVars, statusVars, daemonVars>>

\* The next deferred call of the operation: the unlock (for the refresh, with
\* the assignment of line 1557 just before it), SaveRules (lines 1823-1833)
\* or DeleteRuleTable (lines 291-301), each of the two under the lock from
\* start to end.  The operation returns after the last one.
NfDefer(t) ==
  /\ nftask[t].pc = "defer"
  /\ LET a == nftask[t]  d == Head(a.deferred) IN
     /\ CASE d = "unlock" ->
               /\ nfm.mux = t
               /\ nfm' = [nfm EXCEPT !.mux = "",
                                     !.currEgressRangesMap =
                                        IF a.op = "Refresh" THEN a.ranges ELSE @]
               /\ recorded' = recorded
          [] d = "save" ->
               /\ nfm.mux = ""
               /\ nfm' = [nfm EXCEPT !.ingRules = a.ruleTable]
               /\ recorded' = recorded
          [] d = "delete" ->
               /\ nfm.mux = ""
               /\ nfm' = [nfm EXCEPT !.ingRules = 0]
               /\ recorded' = {}
     /\ nftask' = [nftask EXCEPT ![t] =
                     IF Len(a.deferred) = 1 THEN IdleNfTask
                     ELSE [a EXCEPT !.deferred = Tail(a.deferred)]]
  /\ UNCHANGED <<relayVars, stalled, allocVars, statusVars, daemonVars>>

\* ------------------------------------------------------- specifications
\* The forwarding loop and its metric goroutines under every mode, with the
\* control plane closing the endpoint or removing the peer at any time.
InitRelay == InitWith({"ep1"}, BOOLEAN, BOOLEAN)

NextRelay ==
  \/ TunnelSend
  \/ \E e \in ProxyIds : LoopSelect(e)
  \/ \E e \in ProxyIds : LoopRead(e)
  \/ \E e \in ProxyIds : LoopWrite(e)
  \/ \E d \in DatagramIds : MetricLookup(d)
  \/ \E d \in DatagramIds : MetricGet(d)
  \/ \E d \in DatagramIds : MetricUpdate(d)
  \/ CallClose
  \/ RemovePeer

SpecRelay == InitRelay /\ [][NextRelay]_vars

\* Reset run by concurrent control-plane tasks against the registry, the
\* tunnel being idle: each loop is at its select or blocked in its read.
InitReset == InitWith({Nil, "ep1"}, {TRUE}, {FALSE})

NextReset ==
  \/ \E e \in ProxyIds : LoopSelect(e)
  \/ \E e \in ProxyIds : LoopRead(e)
  \/ \E c \in Callers : CallReset(c)
  \/ RemovePeer
  \/ UpdatePeerCfg
  \/ \E c \in Callers : ResetClose(c)
  \/ \E c \in Callers : ResetPull(c)
  \/ \E c \in Callers : ResetStart(c)
  \/ \E c \in Callers : ResetGetPeer(c)
  \/ \E c \in Callers : ResetSavePeer(c)
  \/ \E c \in Callers : ResetGetPeerByHash(c)
  \/ \E c \in Callers : ResetSavePeerByHash(c)
  \/ \E c \in Callers : ResetSignal(c)
  \/ PersistReceive

SpecReset == InitReset /\ [][NextReset]_vars

\* The forwarding loop of endpoint 1 under the faults of its environment:
\* reads that fail on the open socket, a transform that fails, writes that
\* fail, and the control plane closing the endpoint at any time.
InitLoopFaults == InitWith({"ep1"}, BOOLEAN, BOOLEAN)

NextLoopFaults ==
  \/ TunnelSend
  \/ \E e \in ProxyIds : LoopSelect(e)
  \/ \E e \in ProxyIds : LoopReadFaulty(e)
  \/ \E e \in ProxyIds : LoopReadErr(e)
  \/ \E e \in ProxyIds : LoopWrite(e)
  \/ \E e \in ProxyIds : ProxyPeerReturn(e)
  \/ CallClose

SpecLoopFaults == InitLoopFaults /\ [][NextLoopFaults]_vars

\* The same with the goroutine of every forwarding loop scheduled fairly: a
\* loop that can take its next step eventually takes it (its select and its
\* read return when they can, its remote write completes).
SpecLoopFaultsFair ==
  /\ SpecLoopFaults
  /\ \A e \in ProxyIds :
       /\ WF_vars(LoopSelect(e))
       /\ WF_vars(LoopReadFaulty(e))
       /\ WF_vars(LoopWrite(e))

\* One control-plane task closing and resetting the peer's endpoint, one call
\* after the other, with reads that may fail on the open socket and a tunnel
\* interface that may reject the endpoint update of Start; the tunnel is idle.
InitStartFaults == InitWith({"ep1"}, {TRUE}, {FALSE})

NextStartFaults ==
  \/ \E e \in ProxyIds : LoopSelect(e)
  \/ \E e \in ProxyIds : LoopRead(e)
  \/ \E e \in ProxyIds : LoopReadErr(e)
  \/ \E e \in ProxyIds : ProxyPeerReturn(e)
  \/ CallClose
  \/ CallReset("c1")
  \/ ResetClose("c1")
  \/ ResetPull("c1")
  \/ ResetStartFaulty("c1")
  \/ ResetGetPeer("c1")
  \/ ResetSavePeer("c1")
  \/ ResetGetPeerByHash("c1")
  \/ ResetSavePeerByHash("c1")
  \/ ResetSignal("c1")
  \/ PersistReceive

SpecStartFaults == InitStartFaults /\ [][NextStartFaults]_vars

\* The forwarding loop of endpoint 1 with a transform that may hand back its
\* buffer resliced; the endpoint stays up.
InitBuffer == InitWith({"ep1"}, BOOLEAN, BOOLEAN)

NextBuffer ==
  \/ TunnelSend
  \/ \E e \in ProxyIds : LoopSelect(e)
  \/ \E e \in ProxyIds : LoopReadResizing(e)
  \/ \E e \in ProxyIds : LoopWrite(e)

SpecBuffer == InitBuffer /\ [][NextBuffer]_vars

\* The daemon after its start-up (lines 57-83): the first generation of
\* goroutines, the proxy and the HTTP server are running; reset and quit
\* signals arrive at any time.
InitDaemon ==
  /\ InitRelayVars({"ep1"}, {TRUE}, {FALSE})
  /\ stalled = {}
  /\ InitAllocIdle
  /\ InitStatusIdle
  /\ InitNftIdle
  /\ daemon = [pc |-> "select", gen |-> 1, hups |-> 0, quitCh |-> FALSE, resetCh |-> FALSE]
  /\ routines = {Routine(w, 1) : w \in Workers \cup {"proxy"}}
  /\ httpServer = [state |-> "running", starts |-> 1]
  /\ lastSetup = NoSetup

NextDaemon ==
  \/ SigHup
  \/ SigTerm
  \/ DaemonSelect
  \/ CloseCancel
  \/ CloseWait
  \/ Restart
  \/ HttpCancel
  \/ DaemonReturn
  \/ HttpExit
  \/ \E r \in routines : RoutineExit(r)
  \/ \E r \in routines : MqConnect(r)

SpecDaemon == InitDaemon /\ [][NextDaemon]_vars

\* Two goroutines calling the firewall manager for one server's ingress rule
\* table, which does not exist at first.
InitNft ==
  /\ InitRelayVars({"ep1"}, {TRUE}, {FALSE})
  /\ stalled = {}
  /\ InitAllocIdle
  /\ InitStatusIdle
  /\ InitDaemonIdle
  /\ InitNftIdle

NextNft ==
  \/ \E t \in NfTasks : CallOp(t)
  \/ \E t \in NfTasks : NfFetch(t)
  \/ \E t \in NfTasks : NfLock(t)
  \/ \E t \in NfTasks : NfBody(t)
  \/ \E t \in NfTasks : NfDefer(t)

SpecNft == InitNft /\ [][NextNft]_vars

\* The same with every task scheduled fairly: a task that can take its next
\* step, the lock being free where it needs it, eventually takes it.
SpecNftFair ==
  /\ SpecNft
  /\ \A t \in NfTasks :
       /\ WF_vars(NfFetch(t))
       /\ WF_vars(NfLock(t))
       /\ WF_vars(NfBody(t))
       /\ WF_vars(NfDefer(t))

\* Two peers side by side: endpoint 1 relays for one peer and endpoint 2 for
\* another, each in its own mode, each with its own local socket the tunnel
\* writes to; the send path of one transport may stall.
Transports == {"uplink", "turn1", "turn2"}

InitPeers ==
  \E ut1 \in BOOLEAN, ut2 \in BOOLEAN, tc2 \in {"turn1", "turn2"} :
    LET cfg1 == [PeerEndpoint |-> "ep1", TurnConn |-> IF ut1 THEN "turn1" ELSE Nil,
                 ProxyStatus |-> TRUE, UsingTurn |-> ut1]
        cfg2 == [PeerEndpoint |-> "ep2", TurnConn |-> IF ut2 THEN tc2 ELSE Nil,
                 ProxyStatus |-> TRUE, UsingTurn |-> ut2]
        started == {1, 2}
    IN /\ nProxies = 2
       /\ Config = [e \in ProxyIds |-> IF e = 1 THEN cfg1 ELSE IF e = 2 THEN cfg2 ELSE NoConfig]
       /\ ctxDone = [e \in ProxyIds |-> FALSE]
       /\ LocalConn = [e \in ProxyIds |-> IF e \in started THEN e ELSE NoConn]
       /\ RemoteConn = [e \in ProxyIds |-> Config[e].PeerEndpoint]
       /\ sockOpen = [e \in ProxyIds |-> e \in started]
       /\ sockQueue = [e \in ProxyIds |-> << >>]
       /\ sockLog = [e \in ProxyIds |-> << >>]
       /\ loopPc = [e \in ProxyIds |-> IF e \in started THEN "select" ELSE "none"]
       /\ loopDg = [e \in ProxyIds |-> NoDg]
       /\ bufLen = [e \in ProxyIds |-> ReadBufSize]
       /\ issued = [e \in ProxyIds |-> << >>]
       /\ ppPc = [e \in ProxyIds |-> IF e \in started THEN "wait" ELSE "none"]
       /\ ifaceEndpoint = 1
       /\ proxyPeerMap = [present |-> TRUE, Config |-> cfg1, LocalConn |-> 1,
                          ResetConn |-> 1, StopConn |-> 1, ServerMap |-> Servers]
       /\ peerHashMap = [present |-> TRUE, LocalConn |-> 1, ResetConn |-> 0, StopConn |-> 0]
       /\ metricsMap = [s \in Servers |-> 0]
       /\ mtask = [d \in DatagramIds |-> NoTask]
       /\ nSent = 0
       /\ caller = [c \in Callers |-> IdleCaller]
       /\ DumpSignalChan = 0
       /\ stalled = {}
       /\ InitAllocIdle
       /\ InitStatusIdle
       /\ InitHostIdle

NextPeers ==
  \/ \E s \in {1, 2} : TunnelSendTo(s)
  \/ \E e \in ProxyIds : LoopSelect(e)
  \/ \E e \in ProxyIds : LoopRead(e)
  \/ \E e \in ProxyIds : LoopWrite(e)
  \/ \E t \in Transports : Stall(t)

SpecPeers == InitPeers /\ [][NextPeers]_vars

\* GetFreeIp called again and again on a linux or a darwin host, the caller
\* binding or not binding what it was given; the relay engine is at rest.
InitAlloc ==
  /\ InitHostIdle
  /\ InitRelayVars({"ep1"}, {TRUE}, {FALSE})
  /\ stalled = {}
  /\ InitStatusIdle
  /\ \E goos \in {"linux", "darwin"} : freeIp = IdleFreeIp(goos)
  /\ inUse = {}

NextAlloc ==
  \/ \E cidr \in CidrInputs, port \in DstPorts : CallGetFreeIp(cidr, port)
  \/ FreeIpCheck
  \/ FreeIpProbe
  \/ BindReturned

SpecAlloc == InitAlloc /\ [][NextAlloc]_vars

\* PeerConnectionStatus called for known and unknown keys while the clock
\* advances, against a tunnel whose peer list can or cannot be fetched; the
\* relay engine is at rest.
InitStatus ==
  /\ InitHostIdle
  /\ InitRelayVars({"ep1"}, {TRUE}, {FALSE})
  /\ stalled = {}
  /\ InitAllocIdle
  /\ \E failed \in BOOLEAN, peers \in PeerLists :
       ifacePeers = [err |-> failed, peers |-> peers]
  /\ now = StartTime
  /\ status = << >>

NextStatus ==
  \/ \E key \in AskedKeys : PeerConnectionStatus(key)
  \/ Tick

SpecStatus == InitStatus /\ [][NextStatus]_vars

\* ================================================================ claims
\* Ids of the remote writes endpoint e issued, in issue order.
IssuedIds(e) == [i \in 1..Len(issued[e]) |-> issued[e][i].id]

\* Metric goroutines that are not running (never spawned, or finished).
MetricsQuiet == \A d \in DatagramIds : mtask[d].pc \in {"none", "done"}

\* Steps of Reset after the replacement was started successfully.
AfterStart == {"r_get", "r_save", "r_gethash", "r_savehash", "r_signal"}

\* C1: the remote writes of an endpoint's loop follow the order in which the
\* datagrams were written to its local socket, none skipped, none repeated:
\* the ids written are a prefix of the ids delivered to the socket.
C1_OrderPreserved ==
  \A e \in ProxyIds :
    LocalConn[e] # NoConn => IsPrefix(IssuedIds(e), sockLog[LocalConn[e]])

\* Two datagrams were queued behind each other and both were forwarded.
C1_Witness ==
  \E e \in ProxyIds : Len(issued[e]) = 2 /\ IssuedIds(e) = <<1, 2>>

\* C2: at most one forwarding loop of the peer is running with its token not
\* cancelled, in every reachable state (a cancelled loop that has not yet
\* returned is not even counted).
C2_AtMostOneLoop ==
  Cardinality({e \in ProxyIds : LiveLoop(e)}) <= 1

\* C3: when Start of the replacement succeeds inside Reset, the prior loop has
\* already terminated and its socket is released, and then exactly one loop is
\* active.
C3_PriorLoopTerminatedFirst ==
  [][\A c \in Callers :
       (caller[c].pc = "r_start" /\ caller'[c].pc = "r_get")
         => /\ ~sockOpen[caller[c].p]
            /\ ~LoopActive(caller[c].p)
            /\ Cardinality({e \in ProxyIds : LoopActive(e)'}) = 1]_vars

\* C4: once pullLatestConfig has yielded "peer not found", Reset constructs and
\* starts no replacement endpoint.
C4_ResetAbortsOnPeerNotFound ==
  \A c \in Callers : caller[c].pullErr => caller[c].pc \notin AfterStart

\* C5: when a Reset returns and the peer is gone from the registry (it was
\* removed while the Reset ran), no local socket is open and no loop is
\* running for the peer.
C5_NoDanglingSocket ==
  [][\A c \in Callers :
       (InReset(c) /\ caller'[c].pc = "idle" /\ ~proxyPeerMap'.present
          /\ \A o \in Callers \ {c} : ~InReset(o))
         => \A e \in ProxyIds : ~sockOpen'[e] /\ ~LiveLoop(e)']_vars

\* C6: the stored TrafficSent of every server never decreases in any step.
C6_TrafficSentNeverDecreases ==
  [][\A s \in Servers : metricsMap'[s] >= metricsMap[s]]_vars

\* C7: once all metric goroutines have finished, the counter of a server has
\* grown by the sum of the lengths of the datagrams whose goroutine found the
\* peer registered under that server.
C7_CounterGrowsBySum ==
  MetricsQuiet =>
    \A s \in Servers :
      metricsMap[s] = SumLens({d \in DatagramIds : s \in mtask[d].snap}, mtask)

\* C8: a loop holding a datagram can always issue its write, whatever the
\* state of the datagram's metric goroutine; and a goroutine whose lookup did
\* not find the peer (or found relaying off) finishes without updating any
\* metric.
C8_MetricNeverBlocksForwarding ==
  /\ \A e \in ProxyIds : loopPc[e] = "write" => ENABLED LoopWrite(e)
  /\ \A d \in DatagramIds :
       (mtask[d].pc \notin {"none", "lookup"} /\ ~mtask[d].found)
         => mtask[d].pc = "done" /\ mtask[d].updated = {}

\* A datagram was written to the remote while its metric goroutine had not
\* even done its lookup, and another goroutine missed the peer and is done.
C8_Witness ==
  /\ \E e \in ProxyIds, d \in DatagramIds :
       /\ mtask[d].pc = "lookup"
       /\ \E i \in 1..Len(issued[e]) : issued[e][i].id = d
  /\ \E d \in DatagramIds :
       mtask[d].pc = "done" /\ ~mtask[d].found /\ Config[mtask[d].p].ProxyStatus

\* C9: the two indices agree in every reachable state: the peer is in both or
\* in neither, and both entries refer to the same LocalConn.
C9_IndicesConsistent ==
  /\ proxyPeerMap.present = peerHashMap.present
  /\ proxyPeerMap.present => proxyPeerMap.LocalConn = peerHashMap.LocalConn

\* Both registry entries hold the replacement np's handles and socket.
BothHoldReplacement(np) ==
  /\ proxyPeerMap.present /\ peerHashMap.present
  /\ proxyPeerMap.LocalConn = LocalConn[np] /\ peerHashMap.LocalConn = LocalConn[np]
  /\ proxyPeerMap.ResetConn = np /\ proxyPeerMap.StopConn = np
  /\ peerHashMap.ResetConn = np /\ peerHashMap.StopConn = np

C11_SignalNeverBlocks ==
  \A c \in Callers : caller[c].pc = "r_signal" => ENABLED ResetSignal(c)

\* C12: when Start fails on the replacement, Reset returns on that very step:
\* no loop is launched for the replacement, the endpoint Reset was called on
\* stays cancelled with its socket closed, one replacement was attempted and
\* no other, both registry indices are left as they were and nothing is sent on
\* the persistence channel.  (Loops launched by other, overlapping Resets are
\* the subject of C2.)
C12_StartFailureAbortsReset ==
  [][\A c \in Callers :
       (caller[c].pc = "r_start" /\ caller'[c] # caller[c] /\ ~sockOpen'[nProxies'])
       => /\ caller'[c] = IdleCaller
          /\ loopPc' = loopPc
          /\ loopPc'[nProxies'] = "none"
          /\ ctxDone'[caller[c].p] /\ ~sockOpen'[LocalConn'[caller[c].p]]
          /\ nProxies' = nProxies + 1
          /\ proxyPeerMap' = proxyPeerMap /\ peerHashMap' = peerHashMap
          /\ DumpSignalChan' = DumpSignalChan]_vars

\* A lone Reset has returned after a failed Start: the registry still names
\* the closed endpoint 1 and no loop is running.
C12_Witness ==
  /\ nProxies = 2 /\ LocalConn[2] = NoConn /\ loopPc[2] = "none"
  /\ \A c \in Callers : caller[c] = IdleCaller
  /\ proxyPeerMap.present /\ proxyPeerMap.ResetConn = 1
  /\ peerHashMap.present /\ peerHashMap.LocalConn = 1
  /\ ctxDone[1] /\ ~LoopActive(1) /\ DumpSignalChan = 0

\* C13: a read error ends the loop for good: the loop leaves its read only
\* with a datagram or by returning, a loop that has returned stays so and
\* issues no further write, a loop is launched only by the Start of a Reset,
\* and while no loop of the peer is active no remote write is issued, whatever
\* the tunnel sends.
C13_ReadErrorIsTerminal ==
  [][/\ \A e \in ProxyIds :
          /\ (loopPc[e] = "read" /\ loopPc'[e] # "read")
             => \/ loopPc'[e] = "write" /\ loopDg'[e] # NoDg
                \/ loopPc'[e] = "done"
          /\ loopPc[e] = "done" => (loopPc'[e] = "done" /\ issued'[e] = issued[e])
          /\ (loopPc[e] = "none" /\ loopPc'[e] # "none")
             => \E c \in Callers : caller[c].pc = "r_start" /\ e = nProxies'
     /\ (\A e \in ProxyIds : ~LoopActive(e)) /\ nProxies' = nProxies
        => issued' = issued /\ (\A e \in ProxyIds : loopPc'[e] = loopPc[e])]_vars

\* The read failed on the open, uncancelled socket of endpoint 1 after it had
\* forwarded a datagram; what the tunnel sent afterwards stays in the socket.
C13_Witness ==
  /\ loopPc[1] = "done" /\ ~ctxDone[1] /\ sockOpen[1]
  /\ Len(issued[1]) = 1 /\ Len(sockQueue[1]) = 1

\* C14: the write of a datagram is attempted once, failed or not: the step
\* that leaves the write records one attempt for a datagram never attempted
\* before, drops the datagram and takes the loop back to its select, from
\* where it reads the following datagrams.
C14_WriteFailureDropsDatagram ==
  [][\A e \in ProxyIds :
       (loopPc[e] = "write" /\ loopPc'[e] # "write")
       => /\ loopPc'[e] = "select"
          /\ loopDg'[e] = NoDg
          /\ Len(issued'[e]) = Len(issued[e]) + 1
          /\ issued'[e][Len(issued'[e])].id = loopDg[e].id
          /\ \A i \in 1..Len(issued[e]) : issued[e][i].id # loopDg[e].id]_vars

\* The write of datagram 1 failed and datagram 2 was forwarded after it.
C14_Witness ==
  \E e \in ProxyIds :
    /\ IssuedIds(e) = <<1, 2>>
    /\ ~issued[e][1].ok /\ issued[e][2].ok

\* Length of datagram d as the read returned it (the metric goroutine was
\* handed it before the transform ran).
OriginalLen(d) == mtask[d].n

\* C15: a datagram whose transform failed is held and written by the loop
\* with its original length, untransformed.
C15_FailedTransformForwardsOriginal ==
  \A e \in ProxyIds :
    /\ loopDg[e].tr = "failed" => loopDg[e].n = OriginalLen(loopDg[e].id)
    /\ \A i \in 1..Len(issued[e]) :
         issued[e][i].tr = "failed" => issued[e][i].n = OriginalLen(issued[e][i].id)

\* Datagrams endpoint e's loop has read so far.
ReadBy(e) == {d \in DatagramIds : mtask[d].pc # "none" /\ mtask[d].p = e}

\* C16: every datagram the loop has read is either still held for its write
\* or was written exactly once; the write carries the transformed datagram
\* iff relay or TURN mode is on and the datagram as read otherwise, goes to
\* remoteConn, and goes through the TURN transport iff usingTurn is set, else
\* through the uplink socket.
C16_OneWritePerDatagram ==
  \A e \in ProxyIds :
    LET mode == Config[e].ProxyStatus \/ Config[e].UsingTurn IN
    /\ \A d \in ReadBy(e) :
         Cardinality({i \in 1..Len(issued[e]) : issued[e][i].id = d})
           = IF loopPc[e] = "write" /\ loopDg[e].id = d THEN 0 ELSE 1
    /\ \A i \in 1..Len(issued[e]) :
         LET w == issued[e][i] IN
         /\ w.id \in ReadBy(e)
         /\ (w.tr # "none") <=> mode
         /\ w.n = IF mode THEN OriginalLen(w.id) + TransformOverhead
                  ELSE OriginalLen(w.id)
         /\ w.via = IF Config[e].UsingTurn THEN "turn" ELSE "uplink"
         /\ w.dst = RemoteConn[e]

\* A datagram was written through the TURN transport, transformed.
C16_Witness ==
  \E e \in ProxyIds :
    /\ Config[e].UsingTurn /\ ~Config[e].ProxyStatus
    /\ Len(issued[e]) = 2
    /\ issued[e][1].via = "turn" /\ issued[e][1].n = 100 + TransformOverhead

\* C17: a loop that is running when its endpoint is closed (token cancelled,
\* socket closed) eventually returns, wherever it was, blocked in its read
\* included.
C17_ClosedLoopTerminates ==
  \A e \in ProxyIds :
    (ctxDone[e] /\ ~sockOpen[LocalConn[e]] /\ LoopActive(e)) ~> ~LoopActive(e)

\* The endpoint was closed while its loop sat in the read, the tunnel
\* having sent nothing.
C17_Witness ==
  /\ ctxDone[1] /\ ~sockOpen[1] /\ loopPc[1] = "read"
  /\ nSent = 0

C19_ProxyPeerWaitsForLoop ==
  \A e \in ProxyIds :
    /\ LoopActive(e) => ppPc[e] = "wait"
    /\ ppPc[e] = "returned" => loopPc[e] = "done"
    /\ (ppPc[e] = "wait" /\ loopPc[e] = "done") => ENABLED ProxyPeerReturn(e)

\* ProxyPeer has returned after its loop ended on a read error, the endpoint
\* never having been cancelled.
C19_Witness ==
  ppPc[1] = "returned" /\ loopPc[1] = "done" /\ ~ctxDone[1]

\* C20: a Start that did not bring the tunnel's peer endpoint to the
\* replacement's socket (the interface update failed, or an earlier step did)
\* has returned an error, so that Reset returns, and has launched no loop for
\* the replacement.
C20_IfaceFailureReported ==
  [][\A c \in Callers :
       (/\ caller[c].pc = "r_start" /\ caller'[c] # caller[c]
        /\ ifaceEndpoint' # nProxies')
       => /\ caller'[c] = IdleCaller
          /\ loopPc'[nProxies'] = "none"]_vars

\* Endpoint e's loop sits in a remote write that does not return.
BlockedInWrite(e) == loopPc[e] = "write" /\ ~ENABLED LoopWrite(e)

\* Endpoint f's loop can go on to its select and read what its socket holds.
CanSelectAndRead(f) ==
  /\ loopPc[f] = "select" => ENABLED LoopSelect(f)
  /\ (loopPc[f] = "read" /\ sockQueue[LocalConn[f]] # << >>) => ENABLED LoopRead(f)

\* By their configuration, the peers of e and f write through the same object:
\* both through the uplink socket, or both through the same TURN transport.
SameTransport(e, f) ==
  /\ Config[e].UsingTurn = Config[f].UsingTurn
  /\ Config[e].UsingTurn => Config[e].TurnConn = Config[f].TurnConn

\* C21: while one peer's loop is blocked in its remote write, the loop of
\* every other peer can take each of its steps: select, read what is queued,
\* and write what it holds.
C21_BlockedPeerStallsNoOther ==
  \A e, f \in {1, 2} :
    (e # f /\ BlockedInWrite(e))
    => (CanSelectAndRead(f) /\ (loopPc[f] = "write" => ENABLED LoopWrite(f)))

\* C21 as the code has it: while one peer's loop is blocked in its remote
\* write, every other peer's loop can select and read, and can write iff it
\* writes through another transport than the blocked peer; two peers on the
\* uplink socket (or on one TURN transport) are held at their writes together.
C21_BlockedPeerStallsSharers ==
  \A e, f \in {1, 2} :
    (e # f /\ BlockedInWrite(e))
    => /\ CanSelectAndRead(f)
       /\ loopPc[f] = "write" => (ENABLED LoopWrite(f) <=> ~SameTransport(e, f))

\* Peer 1 is blocked writing datagram 1 to the stalled uplink while peer 2,
\* on TURN, holds datagram 2 and is free to write it.
C21_Witness ==
  /\ BlockedInWrite(1) /\ ~Config[1].UsingTurn /\ Config[2].UsingTurn
  /\ loopDg[1].id = 1 /\ loopDg[2].id = 2
  /\ loopPc[2] = "write" /\ ENABLED LoopWrite(2)

\* The running or returned GetFreeIp call was given a zero port or a CIDR
\* string that does not parse.
BadArgs == freeIp.pc # "idle" /\ (freeIp.dstPort = 0 \/ ~freeIp.cidrAddr.ok)

\* C22: with a zero dstPort or an unparsable CIDR GetFreeIp never enters its
\* probing loop: it dials from no address, aliases none, and returns an error
\* and no address.
C22_BadArgsFailFast ==
  BadArgs =>
    /\ freeIp.pc \in {"check", "done"}
    /\ freeIp.probed = << >> /\ freeIp.aliased = {} /\ freeIp.conns = 0
    /\ freeIp.pc = "done" => (freeIp.err # "" /\ freeIp.ret = NoAddr)

\* On a darwin host a call with a good port and an unparsable CIDR has
\* returned its error.
C22_Witness ==
  /\ freeIp.pc = "done" /\ freeIp.goos = "darwin"
  /\ ~freeIp.cidrAddr.ok /\ freeIp.dstPort # 0
  /\ freeIp.err = "invalid CIDR address"

\* GetFreeIp has returned an address and a nil error.
Returned == freeIp.pc = "done" /\ freeIp.err = ""

\* C23: an address GetFreeIp returns with a nil error lies in the block it
\* was given, whichever of the block's addresses were unavailable.
C23_ReturnedInCidr ==
  Returned => freeIp.ret \in CidrAddrs(freeIp.cidrAddr)

\* Every address of the widest block but the last usable one was unavailable
\* and the last usable one was returned.
C23_Witness ==
  /\ Returned /\ freeIp.cidrAddr.bits = MaxHostBits
  /\ freeIp.ret = BroadcastAddress(freeIp.cidrAddr) - 1
  /\ Len(freeIp.probed) = Pow2(MaxHostBits) - 2

\* The call follows one that returned an address of the same block, and the
\* caller had bound that address before this call began.
SecondCallAfterBind ==
  /\ freeIp.prev # NoAddr /\ freeIp.prevBound
  /\ freeIp.prevCidr = freeIp.cidrAddr /\ freeIp.dstPort # 0

\* C24: a call that follows one which returned address A of the same block,
\* A being bound by now, does not fail on A's being in use and, when it
\* returns an address, returns another one than A.
C24_SecondCallDiffers ==
  (freeIp.pc = "done" /\ SecondCallAfterBind)
  => /\ freeIp.err # "address already in use"
     /\ Returned => freeIp.ret # freeIp.prev

\* The first call returned the block's first address, the caller bound it,
\* and the second call returned the address after it.
C24_Witness ==
  /\ Returned /\ SecondCallAfterBind
  /\ freeIp.prev = FirstAddress(freeIp.cidrAddr)
  /\ freeIp.ret = freeIp.prev + 1

\* The probe errors of the "address unavailable" / "address in use" class.
UnavailableErrs ==
  {"can't assign requested address", "cannot assign requested address",
   "address already in use"}

\* C25: after a probe that failed with an error of the unavailable class the
\* allocator either goes on to probe the next address or returns the error of
\* the address advancement, never the probe's; after a probe that failed with
\* any other error it returns that error and no address, and a call that has
\* returned probes nothing more.
C25_ProbeErrorClasses ==
  [][/\ (freeIp.pc = "probe" /\ freeIp' # freeIp)
        => LET d == freeIp'.dialErr IN
           /\ freeIp'.probed = Append(freeIp.probed, freeIp.newAddrs)
           /\ d \in UnavailableErrs
              => /\ freeIp'.err \notin UnavailableErrs
                 /\ freeIp'.ret = NoAddr
                 /\ freeIp'.err = "" => /\ freeIp'.pc = "probe"
                                        /\ freeIp'.newAddrs = freeIp.newAddrs + 1
           /\ (d # "" /\ d \notin UnavailableErrs)
              => (freeIp'.pc = "done" /\ freeIp'.err = d /\ freeIp'.ret = NoAddr)
     /\ (freeIp.pc = "done" /\ freeIp'.pc = "done") => freeIp' = freeIp]_vars

\* The first address was unavailable, the probe of the second met a fatal
\* error, which was returned.
C25_Witness ==
  /\ freeIp.pc = "done" /\ freeIp.err = "permission denied"
  /\ Len(freeIp.probed) = 2

\* The candidates of block n: its addresses between network and broadcast.
Candidates(n) == (n.net + 1) .. (BroadcastAddress(n) - 1)

\* The errors of address advancement.
ExhaustionErrs == {"address is a broadcast address", "address is out of range"}

\* C26: GetFreeIp never probes a candidate twice, so it makes at most as many
\* probes as the block has candidates; while it runs its next step can always
\* be taken; and when it has returned it has an address and no error, or the
\* exhaustion error of address advancement after every candidate was probed
\* and found unavailable, or an argument error, or a fatal probe error.
C26_AllocatorTerminates ==
  /\ \A i, j \in 1..Len(freeIp.probed) : i < j => freeIp.probed[i] < freeIp.probed[j]
  /\ freeIp.cidrAddr.ok => Len(freeIp.probed) <= Cardinality(Candidates(freeIp.cidrAddr))
  /\ freeIp.pc = "check" => ENABLED FreeIpCheck
  /\ freeIp.pc = "probe" => ENABLED FreeIpProbe
  /\ freeIp.pc = "done" =>
       \/ freeIp.err = "" /\ freeIp.ret # NoAddr
       \/ /\ freeIp.err \in ExhaustionErrs /\ freeIp.ret = NoAddr
          /\ {freeIp.probed[i] : i \in 1..Len(freeIp.probed)} = Candidates(freeIp.cidrAddr)
       \/ freeIp.err \notin ExhaustionErrs \cup {""} /\ freeIp.ret = NoAddr

\* Every candidate of the widest block was unavailable and the call has
\* ended with the exhaustion error.
C26_Witness ==
  /\ freeIp.pc = "done" /\ freeIp.err \in ExhaustionErrs
  /\ freeIp.cidrAddr.bits = MaxHostBits
  /\ Len(freeIp.probed) = Pow2(MaxHostBits) - 2

\* C27: the addresses GetFreeIp has probed are the block's first address and
\* the ones after it, in increasing order without a gap; the address it
\* returns is the last one it probed, the only probe that succeeded, and at
\* the return no probe socket is left open.
C27_FirstFreeInOrder ==
  /\ \A i \in 1..Len(freeIp.probed) :
       freeIp.probed[i] = FirstAddress(freeIp.cidrAddr) + (i - 1)
  /\ freeIp.pc = "probe" => freeIp.newAddrs = FirstAddress(freeIp.cidrAddr) + Len(freeIp.probed)
  /\ freeIp.conns = 0
  /\ Returned => /\ freeIp.probed # << >>
                 /\ freeIp.ret = freeIp.probed[Len(freeIp.probed)]
                 /\ freeIp.dialErr = ""
  /\ (freeIp.pc = "probe" /\ freeIp.probed # << >>) => freeIp.dialErr # ""

\* With nothing bound the first probe succeeded and the block's first
\* address was returned.
C27_Witness ==
  /\ Returned /\ inUse = {} /\ freeIp.probed = <<FirstAddress(freeIp.cidrAddr)>>
  /\ freeIp.ret = freeIp.cidrAddr.net + 1

\* ------------------------------------------------------------------- C28
\* The peer-list entry carrying the key, if the tunnel has one.
EntriesOf(key) ==
  {i \in 1..Len(ifacePeers.peers) : ifacePeers.peers[i].PublicKey = key}

\* The age in seconds, at instant t, of the handshake of entry i.
HandshakeAge(i, t) == t - ifacePeers.peers[i].LastHandshakeTime

\* C28: when the peer list can be fetched, PeerConnectionStatus(key) returns
\* true exactly when the list has an entry with that key whose last handshake
\* is less than three minutes old and whose received plus transmitted bytes
\* are more than zero: true at 2m59s with traffic, false at 3m and 3m1s, false
\* without traffic however recent the handshake, false for an absent peer.
C28_StatusIffRecentAndTraffic ==
  \A c \in 1..Len(status) :
    ~ifacePeers.err =>
      (status[c].ret <=>
         \E i \in EntriesOf(status[c].key) :
           /\ HandshakeAge(i, status[c].at) < HandshakeWindow
           /\ ifacePeers.peers[i].ReceiveBytes + ifacePeers.peers[i].TransmitBytes > 0)

\* The same peer, with traffic, was reported connected at 2m59s and not
\* connected a second later.
C28_Witness ==
  /\ ~ifacePeers.err
  /\ Len(status) >= 2
  /\ status[1].key = status[2].key
  /\ status[1].ret /\ ~status[2].ret
  /\ \E i \in EntriesOf(status[1].key) :
       /\ HandshakeAge(i, status[1].at) = HandshakeWindow - 1
       /\ HandshakeAge(i, status[2].at) = HandshakeWindow

\* ------------------------------------------------------------------- C29
\* C29: when the tunnel's peer list cannot be fetched, PeerConnectionStatus
\* returns false for every public key, whatever the tunnel's peers are doing.
C29_GetPeersErrMeansFalse ==
  ifacePeers.err => \A c \in 1..Len(status) : ~status[c].ret

\* The list could not be fetched, and the call was for a peer of the tunnel
\* with a handshake at that very instant and traffic.
C29_Witness ==
  /\ ifacePeers.err
  /\ \E c \in 1..Len(status) :
       /\ ~status[c].ret
       /\ \E i \in EntriesOf(status[c].key) :
            /\ HandshakeAge(i, status[c].at) = 0
            /\ ifacePeers.peers[i].ReceiveBytes > 0

\* ------------------------------------------------------------------- C30
\* What the tunnel's statistics say about the key at instant t, whatever was
\* asked before.
FreshAnswer(key, t) ==
  /\ ~ifacePeers.err
  /\ \E i \in EntriesOf(key) :
       /\ HandshakeAge(i, t) < HandshakeWindow
       /\ ifacePeers.peers[i].ReceiveBytes + ifacePeers.peers[i].TransmitBytes > 0

\* C30: a call of PeerConnectionStatus changes no registry, endpoint, metric,
\* allocator, tunnel or clock state; its answer is the one the statistics give
\* at that instant, not one kept from an earlier call; and two calls for the
\* same key at the same instant return the same result.
C30_StatusIsPureStep ==
  (status' # status) =>
    /\ UNCHANGED <<relayVars, hostVars, stalled, allocVars, ifacePeers, now>>
    /\ status'[Len(status')].ret = FreshAnswer(status'[Len(status')].key, now)
    /\ \A i, j \in 1..Len(status') :
         (status'[i].key = status'[j].key /\ status'[i].at = status'[j].at)
           => status'[i].ret = status'[j].ret

C30_StatusHasNoEffect == [][C30_StatusIsPureStep]_vars

\* Two calls for the same key at the same instant, both answered "connected".
C30_Witness ==
  /\ Len(status) >= 2
  /\ status[1].key = status[2].key
  /\ status[1].at = status[2].at
  /\ status[1].ret /\ status[2].ret

\* ------------------------------------------------------------------- C31
\* The step by which the loop of endpoint e looks at its token and finds it
\* cancelled.
ObservesCancel(e) == loopPc[e] = "select" /\ ctxDone[e] /\ loopPc'[e] # loopPc[e]

\* The loop of endpoint e has returned: it holds no datagram and neither
\* reads nor writes in this step.
StaysReturned(e) ==
  /\ loopPc'[e] = "done"
  /\ loopDg'[e] = loopDg[e]
  /\ issued'[e] = issued[e]

\* C31: once the loop finds its token cancelled at the top of an iteration it
\* returns, and a returned loop starts no read from its local socket and
\* issues no write to the remote, whatever is still sent to the socket or to
\* the peer's other endpoints.
C31_CancelStopsLoopStep ==
  \A e \in ProxyIds :
    /\ ObservesCancel(e) => loopPc'[e] = "done"
    /\ loopPc[e] = "done" => StaysReturned(e)

C31_CancelCheckedBeforeRead == [][C31_CancelStopsLoopStep]_vars

\* The loop has returned with its token cancelled after having forwarded a
\* datagram, and a datagram delivered to its socket was never forwarded.
C31_Witness ==
  \E e \in ProxyIds :
    /\ loopPc[e] = "done"
    /\ ctxDone[e]
    /\ Len(issued[e]) >= 1
    /\ Len(issued[e]) < Len(sockLog[LocalConn[e]])

\* ------------------------------------------------------------------- C32
\* C32: every read from the local socket is issued with a receive buffer of
\* 65000 bytes, in every iteration, also after a datagram whose transform
\* handed back a buffer of another size.
C32_ReadBufferIs65000 ==
  \A e \in ProxyIds : loopPc[e] = "read" => bufLen[e] = ReadBufSize

\* ------------------------------------------------------------------- C33
\* The step by which caller c's Reset constructs (and starts) its replacement.
BuildsReplacement(c) == caller[c].pc = "r_start" /\ nProxies' = nProxies + 1

\* C33: the replacement a Reset constructs has the PeerEndpoint and TurnConn
\* that Reset's pull found in the peer's registry entry, and the relay and
\* TURN flags of the endpoint being reset.
C33_ReplacementHasPulledStep ==
  \A c \in Callers :
    (BuildsReplacement(c) /\ ~caller[c].pullErr) =>
      /\ Config'[nProxies'].PeerEndpoint = caller[c].pulled.PeerEndpoint
      /\ Config'[nProxies'].TurnConn = caller[c].pulled.TurnConn
      /\ Config'[nProxies'].ProxyStatus = Config[caller[c].p].ProxyStatus
      /\ Config'[nProxies'].UsingTurn = Config[caller[c].p].UsingTurn

C33_ReplacementHasPulled == [][C33_ReplacementHasPulledStep]_vars

\* ------------------------------------------------------------------- C34
\* The step by which caller c's Reset closes an endpoint that has no
\* PeerEndpoint.
ClosesNilEndpoint(c) ==
  /\ caller[c].pc = "r_close"
  /\ Config[caller[c].p].PeerEndpoint = Nil
  /\ caller'[c] # caller[c]

\* C34: Reset on an endpoint whose PeerEndpoint is nil closes that endpoint
\* and returns: it constructs and starts no replacement, leaves both registry
\* indices as they are and sends no persistence signal.
C34_NilEndpointOnlyClosedStep ==
  \A c \in Callers :
    ClosesNilEndpoint(c) =>
      /\ ctxDone'[caller[c].p]
      /\ ~sockOpen'[LocalConn[caller[c].p]]
      /\ caller'[c] = IdleCaller
      /\ UNCHANGED <<nProxies, Config, loopPc, ppPc, registryVars, DumpSignalChan>>

C34_NilEndpointOnlyClosed == [][C34_NilEndpointOnlyClosedStep]_vars

\* Reset was run on the endpoint without PeerEndpoint and has returned: the
\* endpoint is closed, it is still the only one, and the registry still holds
\* it.
C34_Witness ==
  /\ Config[1].PeerEndpoint = Nil
  /\ ctxDone[1] /\ ~sockOpen[1]
  /\ \A c \in Callers : caller[c] = IdleCaller
  /\ nProxies = 1
  /\ proxyPeerMap.present /\ proxyPeerMap.ResetConn = 1
  /\ DumpSignalChan = 0

\* ------------------------------------------------------------------- C35
\* The daemon is past httpCancel() on its way out.
HttpCancelled == daemon.pc \in {"q_httpwait", "returned"}

\* C35: the HTTP server is started once and keeps running through every reset
\* cycle; it is cancelled only when the daemon quits, and the daemon returns
\* only after the server has finished.
C35_HttpServerOutlivesResets ==
  /\ httpServer.starts = 1
  /\ httpServer.state = "running" <=> ~HttpCancelled
  /\ daemon.pc = "returned" => httpServer.state = "done"

\* Two reset cycles are over, the third generation runs, and the HTTP server
\* started at the beginning is still running.
C35_Witness ==
  /\ daemon.gen = 3
  /\ daemon.pc = "select"
  /\ \E r \in routines : r.gen = 3
  /\ httpServer = [state |-> "running", starts |-> 1]

\* ------------------------------------------------------------------- C36
\* C36: the goroutines running at any moment all belong to one generation,
\* the daemon's current one: a new generation is started only after every
\* goroutine of the one before has finished; and once Daemon has returned no
\* goroutine is left and the HTTP server has finished.
C36_OneGenerationAtATime ==
  /\ \A r \in routines : r.gen = daemon.gen
  /\ daemon.pc = "r_start" => routines = {}
  /\ daemon.pc = "returned" => routines = {} /\ httpServer.state = "done"

\* The second reset has cancelled the second generation and waits in
\* closeRoutines while a message queue of that generation is still in its
\* connect loop.
C36_Witness ==
  /\ daemon.gen = 2
  /\ daemon.pc = "r_wait"
  /\ \E r \in routines : r.gen = 2 /\ r.cancelled /\ r.w = "mq" /\ r.pc = "connect"

\* ------------------------------------------------------------------- C37
\* A setupMQTT call, running or returned, with the outcomes of its connect
\* attempts so far.
SetupCalls == {r.tried : r \in {x \in routines : x.w = "mq"}} \cup {lastSetup.tried}

\* C37: setupMQTT attempts the connection at most three times, makes no
\* further attempt once one has succeeded, and returns an error only if every
\* attempt failed.
C37_ConnectRetriesUntilSuccess ==
  /\ \A tried \in SetupCalls :
       /\ Len(tried) <= MaxConnects
       /\ \A i \in 1..Len(tried) : tried[i] = "ok" => i = Len(tried)
  /\ lastSetup.err # "" => \A i \in 1..Len(lastSetup.tried) : lastSetup.tried[i] # "ok"

\* The ext clients the server's stored rule table has rules for.
StoredKeys ==
  IF nfm.ingRules = 0 THEN {}
  ELSE {k \in ExtKeys : nfm.tables[nfm.ingRules][k].present}

\* No operation of the manager is in flight.
AllReturned == \A t \in NfTasks : nftask[t].pc = "idle"

\* C38: once every concurrent operation on the server's rule table has
\* returned, the rules each of them recorded (and none removed since) are in
\* the manager's rule table for the server.
C38_RecordedRulesKept == AllReturned => recorded \subseteq StoredKeys

\* Task t is about to acquire the mutex: in FetchRuleTable, in the body's own
\* Lock, or in a deferred SaveRules or DeleteRuleTable.
WantsMux(t) ==
  \/ nftask[t].pc \in {"fetch", "lock"}
  \/ nftask[t].pc = "defer" /\ Head(nftask[t].deferred) \in {"save", "delete"}

\* A task never asks for the mutex it holds.
ReleasedBeforeReacquire == \A t \in NfTasks : WantsMux(t) => nfm.mux # t

\* C39: no operation asks for the mutex while holding it, and under fair
\* scheduling every call of an operation returns, however the calls of the
\* tasks interleave.
C39_NoDeadlockOnMux ==
  /\ []ReleasedBeforeReacquire
  /\ \A t \in NfTasks : (nftask[t].pc # "idle") ~> (nftask[t].pc = "idle")

\* Both tasks are inside an operation, one holding the mutex and the other
\* waiting for it in its deferred SaveRules or DeleteRuleTable.
C39_Witness ==
  \E t, u \in NfTasks :
    /\ t # u
    /\ nfm.mux = t
    /\ nftask[t].pc = "defer"
    /\ nftask[u].pc = "defer"
    /\ Head(nftask[u].deferred) \in {"save", "delete"}

\* The body of a RefreshEgressRangesOnIngressGw call of task t runs.
RefreshBody(t) ==
  /\ nftask[t].op = "Refresh"
  /\ nftask[t].pc = "body"
  /\ nftask'[t].pc = "defer"

\* The deferred function of a RefreshEgressRangesOnIngressGw call of task t runs.
RefreshUnlock(t) ==
  /\ nftask[t].op = "Refresh"
  /\ nftask[t].pc = "defer"
  /\ Head(nftask[t].deferred) = "unlock"
  /\ nftask'[t] # nftask[t]

\* A refresh whose ranges differ from the server's current ones leaves every
\* ext client of the table with egress rules for exactly the new ranges, and
\* the call's deferred function makes the new ranges the current ones.
C40_RefreshStep ==
  \A t \in NfTasks :
    /\ RefreshBody(t) /\ nftask[t].ranges # nfm.currEgressRangesMap
         => \A k \in ExtKeys :
              nfm'.tables[nftask[t].ruleTable][k].present
                => nfm'.tables[nftask[t].ruleTable][k].egress = nftask[t].ranges
    /\ RefreshUnlock(t) => nfm'.currEgressRangesMap = nftask[t].ranges

\* C40: RefreshEgressRangesOnIngressGw leaves the egress ext rules alone only
\* when the new ranges are the current ones; when they differ the old rules
\* are replaced by rules for the new ranges, which then are the current ones.
C40_RefreshAppliesChangedRanges == [][C40_RefreshStep]_vars

====
